---- MODULE Spec2Model ----
(***************************************************************************)
(* tap-postgres.  Three parts of the tap are modelled, each with its own   *)
(* specification over its own variables:                                   *)
(*   Spec, SpecLive, SpecArray  the logical replication (LOG_BASED) stream *)
(*              of src/tap_postgres/client.py, PostgresLogBasedStream;     *)
(*   SpecInc    the INCREMENTAL stream, PostgresStream.get_records;        *)
(*   SpecConn   the construction of the tap (TapPostgres.__init__) and     *)
(*              ConnectionParameters of connection_parameters.py.          *)
(*                                                                         *)
(* LOG_BASED.                                                              *)
(* The program side is get_records (one action per step of the generator) *)
(* and consume (an operator).  The environment is the Postgres server:     *)
(* a write-ahead log of decoded messages with increasing LSNs, a           *)
(* replication slot that keeps every message not yet flushed, and the      *)
(* state store that hands the last finalized bookmark to the next sync.    *)
(* The server is taken as lines 384-386 take it: it sends the slot's       *)
(* messages in increasing data_start from start_lsn on, and a flush        *)
(* feedback releases only what lies below flush_lsn.  A message the        *)
(* server has committed may arrive late, or not before the timeout.        *)
(* Keepalives are left out: the cursor is readable only when a message is  *)
(* to be read.                                                             *)
(***************************************************************************)
EXTENDS Integers, Sequences, FiniteSets, TLC

(***************************************************************************)
(* Bounds of the model.                                                    *)
(***************************************************************************)
MaxWal == 2          \* messages the server commits in one behaviour
MaxSyncs == 2        \* LOG_BASED syncs run one after the other
MaxInterrupts == 1   \* signals delivered during select() in one sync

(***************************************************************************)
(* Program constants.                                                      *)
(***************************************************************************)
status_interval == 5

None == <<>>          \* Python None, as the value of _sdc_deleted_at

DefaultSlotName == "tappostgres"
SlotNames == {DefaultSlotName, "slot_1"}

Keys == {"1"}
Vals == {"a"}
ClockReadings == {3661}   \* seconds past 1970-01-01T00:00:00Z (01:01:01)

(***************************************************************************)
(* WAL messages as wal2json format-version 2 sends them: message.payload   *)
(* and message.data_start.  A payload that json.loads rejects has          *)
(* decodable = FALSE.  The table has the columns id (primary key) and data.*)
(***************************************************************************)
Column(n, v) == [name |-> n, value |-> v]

Payload(a, cols, ident) ==
    [decodable |-> TRUE, action |-> a, columns |-> cols, identity |-> ident]

MalformedPayload ==
    [decodable |-> FALSE, action |-> "", columns |-> <<>>, identity |-> <<>>]

UpsertPayloads ==
    {Payload(a, <<Column("id", k), Column("data", v)>>, <<>>) :
        a \in {"I", "U"}, k \in Keys, v \in Vals}

DeletePayloads == {Payload("D", <<>>, <<Column("id", k)>>) : k \in Keys}

OtherPayloads == {Payload(a, <<>>, <<>>) : a \in {"T", "B", "C", "M"}}

Payloads ==
    UpsertPayloads \cup DeletePayloads \cup OtherPayloads \cup {MalformedPayload}

Message(lsn, p) == [data_start |-> lsn, payload |-> p]

VARIABLES
    config,              \* the tap's config (replication_slot_name)
    wal,                 \* server: the decoded messages committed so far
    confirmed_flush,     \* server: the slot's confirmed flush LSN
    slot_used,           \* server: slot named by the last start_replication
    stream_state,        \* state store: the stream's bookmark dict
    sync_no,             \* number of syncs started
    pc,                  \* position of get_records
    start_lsn,           \* local of get_records
    position,            \* server: index in wal of the next message to send
    cursor_open,         \* logical_replication_cursor is open
    connection_open,     \* logical_replication_connection is open
    records,             \* rows yielded by the running sync, in order
    read_log,            \* indexes in wal of the messages read by the sync
    delivered,           \* all [sync, lsn] handed downstream so far
    sync_start,          \* start_lsn of every sync so far
    sync_end,            \* how every sync so far ended
    since_feedback,      \* seconds since cursor.feedback_timestamp
    wait_left,           \* the timeout handed to the running select()
    interrupts           \* InterruptedErrors raised in the running sync
                         \* (the last three are 0 once the cursor or the
                         \* generator frame that held them is gone)

\* the INCREMENTAL stream
VARIABLES
    table,               \* database: the rows of the stream's table
    key_type,            \* database: type of the replication key column
    has_id_column,       \* database: the table has a column named id
    inc_config,          \* the tap's config, as far as the stream reads it
    inc_state,           \* state store: the stream's bookmark dict
    inc_pc,              \* position of the sync of the stream
    result,              \* rows of the executed query not yet yielded
    emitted,             \* rows yielded by the running sync, in order
    inc_syncs,           \* number of syncs started
    resumed_from,        \* bookmark value the running sync started with
    now                  \* the clock, seconds

inc_vars == <<table, key_type, has_id_column, inc_config, inc_state, inc_pc,
              result, emitted, inc_syncs, resumed_from, now>>

\* the construction of the tap and ConnectionParameters
VARIABLES
    tap_config,          \* the config TapPostgres is constructed with
    tap_status,          \* "new", "constructed" or "rejected"
    lr_connection,       \* outcome of logical_replication_connection
    heap,                \* the options dicts, by object identity
    instances,           \* the ConnectionParameters built so far
    catalog_entry,       \* the catalog entry of the tap's one stream
    stream_class,        \* the class discover_streams chose for it
    raised,              \* what the last from_tap_config raised
    call,                \* history: the last call on ConnectionParameters
    derived_from         \* history: the instance each one was derived from

conn_vars == <<tap_config, tap_status, lr_connection, heap, instances,
               catalog_entry, stream_class, raised, call, derived_from>>

\* the files _filepath_or_certificate reads and writes
VARIABLES
    fs_config,           \* the SSL values of the config
    umask,               \* the umask of the process
    files,               \* filesystem: path -> [data, mode]
    fs_pc,               \* position in _build_options_from_tap_config
    fs_options           \* the options dict being built

fs_vars == <<fs_config, umask, files, fs_pc, fs_options>>

\* psycopg2's type casters (one registry for the process) and the connectors
VARIABLES
    typecasters,         \* psycopg2: OID -> the caster registered for it
    imported,            \* tap_postgres has been imported
    connectors,          \* configs of the PostgresConnectors constructed
    fetched              \* history: the last value a safe parser or a
                         \* connector's cursor returned

type_vars == <<typecasters, imported, connectors, fetched>>

\* the schema of a LOG_BASED stream
VARIABLES
    singer_catalog_entry, \* the stream's entry of catalog_dict
    working_catalog,      \* the entry as TapPostgres.catalog returns it
    stream_schema,        \* the cached value of PostgresLogBasedStream.schema
    written               \* history: the last record the stream emitted

schema_vars == <<singer_catalog_entry, working_catalog, stream_schema, written>>

\* SSHTunnelForwarder: the caller of start() and stop(), the forwarding
\* thread, and the clients of the local port
VARIABLES
    stop_event,          \* _stop_event is set
    server_socket,       \* _server_socket: "none", "listening" or "closed"
    ssh_client,          \* ssh_client: "none", "connected" or "closed"
    tunnel_thread,       \* position of _forward_tunnel
    caller,              \* position of the thread that calls start and stop
    backlog,             \* connections waiting to be accepted
    clients,             \* connections made to the local port so far
    local_socket,        \* local of _forward_tunnel: the accepted socket
    forwarded            \* history: the connections handed to _forward_data

ssh_vars == <<stop_event, server_socket, ssh_client, tunnel_thread, caller,
              backlog, clients, local_socket, forwarded>>

ext_vars == <<fs_vars, type_vars, schema_vars, ssh_vars>>

log_vars == <<config, wal, confirmed_flush, slot_used, stream_state, sync_no,
              pc, start_lsn, position, cursor_open, connection_open, records,
              read_log, delivered, sync_start, sync_end, since_feedback,
              wait_left, interrupts>>

vars == <<log_vars, inc_vars, conn_vars, ext_vars>>

(***************************************************************************)
(* Helpers: Python dicts are functions from keys to values.                *)
(***************************************************************************)
EmptyDict == <<>>

DictUpdate(d, k, v) ==
    [x \in (DOMAIN d) \cup {k} |-> IF x = k THEN v ELSE d[x]]

DictPop(d, k) == [x \in (DOMAIN d) \ {k} |-> d[x]]

Max(a, b) == IF a >= b THEN a ELSE b

Pad2(n) == <<ToString(n \div 10), ToString(n % 10)>>

StrftimeUnpadded(t) ==
    <<"1", "9", "7", "0", "-", "0", "1", "-", "0", "1", "T">>
        \o <<ToString(t \div 3600)>> \o <<":">>
        \o <<ToString((t % 3600) \div 60)>>
        \o <<":">> \o <<ToString(t % 60)>> \o <<"Z">>

(***************************************************************************)
(* datetime.datetime.utcnow().strftime("%Y-%m-%dT%H:%M:%SZ"), for a clock  *)
(* reading t in seconds past the epoch, within the first day: a sequence   *)
(* of 20 characters.                                                       *)
(***************************************************************************)
Strftime(t) ==
    <<"1", "9", "7", "0", "-", "0", "1", "-", "0", "1", "T">>
        \o Pad2(t \div 3600) \o <<":">> \o Pad2((t % 3600) \div 60)
        \o <<":">> \o Pad2(t % 60) \o <<"Z">>

(***************************************************************************)
(* consume: lines 433-492.                                                 *)
(***************************************************************************)
NoTruncateActions == {}

upsert_actions == {"I", "U"}
delete_actions == {"D"}
truncate_actions == {"T"}
transaction_actions == {"B", "C"}

RECURSIVE RowUpdateAll(_, _)
RowUpdateAll(row, cols) ==
    IF cols = <<>> THEN row
    ELSE RowUpdateAll(DictUpdate(row, Head(cols).name, Head(cols).value),
                      Tail(cols))

ConsumeNeverRaises(message) == FALSE

ConsumeRaisesOnDecodeError(message) ==
    \/ ~message.payload.decodable
    \/ message.payload.action \notin
         (upsert_actions \cup delete_actions \cup truncate_actions
            \cup transaction_actions)

\* consume raises RuntimeError (the else branch, lines 483-490)
ConsumeRaises(message) ==
    /\ message.payload.decodable
    /\ message.payload.action \notin
         (upsert_actions \cup delete_actions \cup truncate_actions
            \cup transaction_actions)

ConsumeUpsertWithoutDeletedAt(message, utcnow) ==
    LET message_payload == message.payload IN
    IF ~message_payload.decodable THEN EmptyDict
    ELSE IF message_payload.action \in upsert_actions THEN
        DictUpdate(RowUpdateAll(EmptyDict, message_payload.columns),
                   "_sdc_lsn", message.data_start)
    ELSE IF message_payload.action \in delete_actions THEN
        DictUpdate(
            DictUpdate(RowUpdateAll(EmptyDict, message_payload.identity),
                       "_sdc_deleted_at", Strftime(utcnow)),
            "_sdc_lsn", message.data_start)
    ELSE EmptyDict

\* the row consume returns when it does not raise; utcnow is the clock
\* reading taken by the delete branch
Consume(message, utcnow) ==
    LET message_payload == message.payload IN
    IF ~message_payload.decodable THEN EmptyDict
    ELSE IF message_payload.action \in upsert_actions THEN
        DictUpdate(
            DictUpdate(RowUpdateAll(EmptyDict, message_payload.columns),
                       "_sdc_deleted_at", None),
            "_sdc_lsn", message.data_start)
    ELSE IF message_payload.action \in delete_actions THEN
        DictUpdate(
            DictUpdate(RowUpdateAll(EmptyDict, message_payload.identity),
                       "_sdc_deleted_at", Strftime(utcnow)),
            "_sdc_lsn", message.data_start)
    ELSE EmptyDict

(***************************************************************************)
(* The stream's bookmark, as singer_sdk keeps it for the stream:           *)
(* _increment_stream_state (lines 340-373) hands every yielded record to   *)
(* increment_state with is_sorted = self.is_sorted() (lines 513-515).      *)
(* An unsorted stream writes to "progress_markers", which become the       *)
(* bookmark only when the sync ends normally.                              *)
(***************************************************************************)
replication_key == "_sdc_lsn"
replication_method == "LOG_BASED"
REPLICATION_INCREMENTAL == "INCREMENTAL"

is_sorted == replication_method = REPLICATION_INCREMENTAL

HasBookmark(state) == "replication_key_value" \in DOMAIN state

StartingLsnZero(state) == 0

\* get_starting_replication_key_value, then lines 379-380
StartingLsn(state) ==
    IF HasBookmark(state) THEN state["replication_key_value"] ELSE 0

\* the value increment_state leaves in the dict it writes to
IncrementedValue(progress_dict, new_rk_value) ==
    IF "replication_key_value" \notin DOMAIN progress_dict
        THEN new_rk_value
    ELSE IF new_rk_value >= progress_dict["replication_key_value"]
        THEN new_rk_value
    ELSE progress_dict["replication_key_value"]

IncrementStreamState(state, latest_record) ==
    IF latest_record = EmptyDict THEN state
    ELSE IF is_sorted THEN
        DictUpdate(state, "replication_key_value",
                   IncrementedValue(state, latest_record[replication_key]))
    ELSE
        LET progress_dict ==
                IF "progress_markers" \in DOMAIN state
                    THEN state["progress_markers"] ELSE EmptyDict
        IN  DictUpdate(state, "progress_markers",
                DictUpdate(progress_dict, "replication_key_value",
                    IncrementedValue(progress_dict,
                                     latest_record[replication_key])))

\* the bookmark after a sync that ended normally: progress markers promoted
FinalizeState(state) ==
    IF "progress_markers" \in DOMAIN state
        THEN DictUpdate(DictPop(state, "progress_markers"),
                        "replication_key_value",
                        state["progress_markers"]["replication_key_value"])
        ELSE state

\* progress markers of an earlier, unfinished sync are wiped at sync start
ResetProgressMarkers(state) == DictPop(state, "progress_markers")

(***************************************************************************)
(* The server side of the replication session.                             *)
(***************************************************************************)
FlushLsnPastStart(lsn) == lsn + 1

\* lines 384-387: the flush position reported for the previous sync
FlushLsn(lsn) == lsn

\* lines 389-390: the slot start_replication names
SlotName(cfg) == "tappostgres"

\* the slot keeps what is not flushed; the session sends from start_lsn on
Deliverable(i) ==
    /\ wal[i].data_start >= confirmed_flush
    /\ wal[i].data_start >= start_lsn

Pending == {i \in position..Len(wal) : Deliverable(i)}

NextIndex == CHOOSE i \in Pending : \A j \in Pending : i <= j

NextLsn == IF wal = <<>> THEN 1 ELSE wal[Len(wal)].data_start + 1

InLoop == pc \in {"streaming", "waiting"}

\* read_message answers a keepalive in which the server asks for a reply, and
\* only then moves the cursor's feedback_timestamp; the tap itself sends no
\* feedback inside the loop
AfterRead(elapsed, replied) == IF replied THEN 0 ELSE elapsed

\* lines 410-416 and 422: the timeout handed to select
Timeout(elapsed) == status_interval - elapsed

SelectWaitUnclamped(elapsed) == Timeout(elapsed)

SelectWait(elapsed) == Max(0, Timeout(elapsed))

\* a wait that began elapsed seconds after the last feedback lasts until
\* status_interval seconds after it; a wait of zero seconds is over at once
TimeoutPassed == since_feedback >= status_interval

InitLogBased ==
    /\ config \in [replication_slot_name : SlotNames]
    /\ wal = <<>>
    /\ confirmed_flush = 0
    /\ slot_used = ""
    /\ stream_state = EmptyDict
    /\ sync_no = 0
    /\ pc = "idle"
    /\ start_lsn = 0
    /\ position = 1
    /\ cursor_open = FALSE
    /\ connection_open = FALSE
    /\ records = <<>>
    /\ read_log = <<>>
    /\ delivered = {}
    /\ sync_start = <<>>
    /\ sync_end = <<>>
    /\ since_feedback = 0
    /\ wait_left = 0
    /\ interrupts = 0

\* the INCREMENTAL stream and the construction of the tap, at rest
IncAtRest ==
    /\ table = {}
    /\ key_type = "timestamp"
    /\ has_id_column = TRUE
    /\ inc_config = EmptyDict
    /\ inc_state = EmptyDict
    /\ inc_pc = "idle"
    /\ result = <<>>
    /\ emitted = <<>>
    /\ inc_syncs = 0
    /\ resumed_from = None
    /\ now = 0

ConnAtRest ==
    /\ tap_config = EmptyDict
    /\ tap_status = "new"
    /\ lr_connection = "none"
    /\ heap = <<>>
    /\ instances = <<>>
    /\ catalog_entry = [replication_method |-> "FULL_TABLE"]
    /\ stream_class = "none"
    /\ raised = "none"
    /\ call = [op |-> "none"]
    /\ derived_from = <<>>

FsAtRest ==
    /\ fs_config = EmptyDict
    /\ umask = 18
    /\ files = EmptyDict
    /\ fs_pc = [call |-> 0, step |-> "idle"]
    /\ fs_options = EmptyDict

DATE_OID == 1082
TIMESTAMP_OID == 1114
TIMESTAMPTZ_OID == 1184

TemporalOids == {DATE_OID, TIMESTAMP_OID, TIMESTAMPTZ_OID}

\* psycopg2's own casters, before anything is registered
BuiltinCasters ==
    [oid \in TemporalOids |->
        IF oid = DATE_OID THEN "DATE"
        ELSE IF oid = TIMESTAMP_OID THEN "PYDATETIME" ELSE "PYDATETIMETZ"]

TypesAtRest ==
    /\ typecasters = BuiltinCasters
    /\ imported = FALSE
    /\ connectors = <<>>
    /\ fetched = [by |-> "none"]

NotYet == [done |-> FALSE]

SchemaAtRest ==
    /\ singer_catalog_entry = EmptyDict
    /\ working_catalog = NotYet
    /\ stream_schema = NotYet
    /\ written = NotYet

NoSocket == [open |-> FALSE]

\* __init__, tap.py lines 76-81
SshAtRest ==
    /\ stop_event = FALSE
    /\ server_socket = "none"
    /\ ssh_client = "none"
    /\ tunnel_thread = "unstarted"
    /\ caller = "new"
    /\ backlog = 0
    /\ clients = 0
    /\ local_socket = NoSocket
    /\ forwarded = <<>>

ExtAtRest == FsAtRest /\ TypesAtRest /\ SchemaAtRest /\ SshAtRest

Init == InitLogBased /\ IncAtRest /\ ConnAtRest /\ ExtAtRest

(***************************************************************************)
(* Environment: a transaction commits and its change is decoded.           *)
(***************************************************************************)
CommitOf(payloads) ==
    /\ Len(wal) < MaxWal
    /\ \E p \in payloads : wal' = Append(wal, Message(NextLsn, p))
    /\ UNCHANGED <<config, confirmed_flush, slot_used, stream_state, sync_no,
                   pc, start_lsn, position, cursor_open, connection_open,
                   records, read_log, delivered, sync_start, sync_end,
                   since_feedback, wait_left, interrupts>>
    /\ UNCHANGED <<inc_vars, conn_vars, ext_vars>>

Commit == CommitOf(Payloads)

(***************************************************************************)
(* get_records, lines 375-431.                                             *)
(***************************************************************************)
\* lines 377-382: a sync starts from the bookmark of the state store
StartSync ==
    /\ pc \in {"idle", "failed"}
    /\ sync_no < MaxSyncs
    /\ sync_no' = sync_no + 1
    /\ stream_state' = ResetProgressMarkers(stream_state)
    /\ start_lsn' = StartingLsn(stream_state)
    /\ connection_open' = TRUE
    /\ cursor_open' = TRUE
    /\ records' = <<>>
    /\ read_log' = <<>>
    /\ interrupts' = 0
    /\ sync_start' = Append(sync_start, StartingLsn(stream_state))
    /\ sync_end' = Append(sync_end, "running")
    /\ pc' = "connected"
    /\ UNCHANGED <<config, wal, confirmed_flush, slot_used, position,
                   delivered, since_feedback, wait_left>>
    /\ UNCHANGED <<inc_vars, conn_vars, ext_vars>>

\* line 387: send_feedback(flush_lsn=start_lsn)
SendFeedback ==
    /\ pc = "connected"
    /\ confirmed_flush' = Max(confirmed_flush, FlushLsn(start_lsn))
    /\ pc' = "fed"
    /\ UNCHANGED <<config, wal, slot_used, stream_state, sync_no, start_lsn,
                   position, cursor_open, connection_open, records, read_log,
                   delivered, sync_start, sync_end, since_feedback, wait_left,
                   interrupts>>
    /\ UNCHANGED <<inc_vars, conn_vars, ext_vars>>

\* lines 389-399: start_replication(slot_name=..., start_lsn=start_lsn, ...)
StartReplication ==
    /\ pc = "fed"
    /\ slot_used' = SlotName(config)
    /\ position' = 1
    /\ since_feedback' = 0
    /\ pc' = "streaming"
    /\ UNCHANGED <<config, wal, confirmed_flush, stream_state, sync_no,
                   start_lsn, cursor_open, connection_open, records, read_log,
                   delivered, sync_start, sync_end, wait_left, interrupts>>
    /\ UNCHANGED <<inc_vars, conn_vars, ext_vars>>

YieldFirst(rows, row) == <<row>> \o rows

\* line 408: yield row
Yield(rows, row) == Append(rows, row)

EndSync(how) == [sync_end EXCEPT ![sync_no] = how]

\* lines 404-408, a message was read: consume it, yield the row if any; the
\* SDK then advances the stream state with the yielded record
ReadMessage ==
    /\ pc = "streaming"
    /\ Pending # {}
    /\ LET message == wal[NextIndex] IN
        /\ position' = NextIndex + 1
        /\ read_log' = Append(read_log, NextIndex)
        /\ IF ConsumeRaises(message)
           THEN /\ pc' = "failed"
                /\ sync_end' = EndSync("error")
                /\ since_feedback' = 0
                /\ interrupts' = 0
                /\ UNCHANGED <<records, delivered, stream_state>>
           ELSE \E utcnow \in ClockReadings, replied \in BOOLEAN :
                LET row == Consume(message, utcnow) IN
                /\ pc' = "streaming"
                /\ sync_end' = sync_end
                /\ since_feedback' = AfterRead(since_feedback, replied)
                /\ interrupts' = interrupts
                /\ IF row # EmptyDict
                   THEN /\ records' = Yield(records, row)
                        /\ delivered' = delivered \cup
                               {[sync |-> sync_no, lsn |-> row["_sdc_lsn"]]}
                        /\ stream_state' =
                               IncrementStreamState(stream_state, row)
                   ELSE UNCHANGED <<records, delivered, stream_state>>
    /\ UNCHANGED <<config, wal, confirmed_flush, slot_used, sync_no,
                   start_lsn, cursor_open, connection_open, sync_start,
                   wait_left>>
    /\ UNCHANGED <<inc_vars, conn_vars, ext_vars>>

\* lines 404, 409-416: read_message returned None (no message has arrived,
\* whether or not the server has one to send); the timeout is computed and
\* select is entered
ReadNone ==
    /\ pc = "streaming"
    /\ \E replied \in BOOLEAN :
        /\ since_feedback' = AfterRead(since_feedback, replied)
        /\ wait_left' = SelectWait(AfterRead(since_feedback, replied))
    /\ pc' = "waiting"
    /\ UNCHANGED <<config, wal, confirmed_flush, slot_used, stream_state,
                   sync_no, start_lsn, position, cursor_open, connection_open,
                   records, read_log, delivered, sync_start, sync_end,
                   interrupts>>
    /\ UNCHANGED <<inc_vars, conn_vars, ext_vars>>

\* read_message raises: the connection dropped mid-stream
ConnectionDropped ==
    /\ pc = "streaming"
    /\ pc' = "failed"
    /\ sync_end' = EndSync("error")
    /\ since_feedback' = 0
    /\ interrupts' = 0
    /\ UNCHANGED <<config, wal, confirmed_flush, slot_used, stream_state,
                   sync_no, start_lsn, position, cursor_open, connection_open,
                   records, read_log, delivered, sync_start, wait_left>>
    /\ UNCHANGED <<inc_vars, conn_vars, ext_vars>>

\* select blocks until its timeout has passed; the clock is read after it
\* has returned, so the age of the last feedback is then past status_interval
Elapse ==
    /\ pc = "waiting"
    /\ wait_left > 0
    /\ ~TimeoutPassed
    /\ since_feedback' = since_feedback + wait_left + 1
    /\ UNCHANGED <<config, wal, confirmed_flush, slot_used, stream_state,
                   sync_no, pc, start_lsn, position, cursor_open,
                   connection_open, records, read_log, delivered, sync_start,
                   sync_end, wait_left, interrupts>>
    /\ UNCHANGED <<inc_vars, conn_vars, ext_vars>>

SelectTimeoutContinues ==
    /\ pc = "waiting"
    /\ TimeoutPassed
    /\ pc' = "streaming"
    /\ UNCHANGED <<config, wal, confirmed_flush, slot_used, stream_state,
                   sync_no, start_lsn, position, cursor_open, connection_open,
                   records, read_log, delivered, sync_start, sync_end,
                   since_feedback, wait_left, interrupts>>
    /\ UNCHANGED <<inc_vars, conn_vars, ext_vars>>

\* lines 420-426: select returned [] after the timeout (nothing arrived
\* in time): break
SelectTimeout ==
    /\ pc = "waiting"
    /\ TimeoutPassed
    /\ pc' = "exited"
    /\ UNCHANGED <<config, wal, confirmed_flush, slot_used, stream_state,
                   sync_no, start_lsn, position, cursor_open, connection_open,
                   records, read_log, delivered, sync_start, sync_end,
                   since_feedback, wait_left, interrupts>>
    /\ UNCHANGED <<inc_vars, conn_vars, ext_vars>>

\* lines 420-425: select returned the cursor as readable: next iteration
SelectReadable ==
    /\ pc = "waiting"
    /\ Pending # {}
    /\ pc' = "streaming"
    /\ wait_left' = 0
    /\ UNCHANGED <<config, wal, confirmed_flush, slot_used, stream_state,
                   sync_no, start_lsn, position, cursor_open, connection_open,
                   records, read_log, delivered, sync_start, sync_end,
                   since_feedback, interrupts>>
    /\ UNCHANGED <<inc_vars, conn_vars, ext_vars>>

SelectInterruptedBreaks ==
    /\ pc = "waiting"
    /\ interrupts < MaxInterrupts
    /\ interrupts' = interrupts + 1
    /\ pc' = "exited"
    /\ wait_left' = 0
    /\ UNCHANGED <<config, wal, confirmed_flush, slot_used, stream_state,
                   sync_no, start_lsn, position, cursor_open, connection_open,
                   records, read_log, delivered, sync_start, sync_end,
                   since_feedback>>
    /\ UNCHANGED <<inc_vars, conn_vars, ext_vars>>

\* lines 427-428: select raised InterruptedError: pass, next iteration
SelectInterrupted ==
    /\ pc = "waiting"
    /\ interrupts < MaxInterrupts
    /\ interrupts' = interrupts + 1
    /\ pc' = "streaming"
    /\ wait_left' = 0
    /\ UNCHANGED <<config, wal, confirmed_flush, slot_used, stream_state,
                   sync_no, start_lsn, position, cursor_open, connection_open,
                   records, read_log, delivered, sync_start, sync_end,
                   since_feedback>>
    /\ UNCHANGED <<inc_vars, conn_vars, ext_vars>>

\* line 430: logical_replication_cursor.close()
CloseCursor ==
    /\ pc = "exited"
    /\ cursor_open' = FALSE
    /\ since_feedback' = 0
    /\ wait_left' = 0
    /\ pc' = "cursor_closed"
    /\ UNCHANGED <<config, wal, confirmed_flush, slot_used, stream_state,
                   sync_no, start_lsn, position, connection_open, records,
                   read_log, delivered, sync_start, sync_end, interrupts>>
    /\ UNCHANGED <<inc_vars, conn_vars, ext_vars>>

\* line 431: logical_replication_connection.close(); the generator is
\* exhausted
CloseConnection ==
    /\ pc = "cursor_closed"
    /\ connection_open' = FALSE
    /\ interrupts' = 0
    /\ pc' = "done"
    /\ UNCHANGED <<config, wal, confirmed_flush, slot_used, stream_state,
                   sync_no, start_lsn, position, cursor_open, records,
                   read_log, delivered, sync_start, sync_end, since_feedback,
                   wait_left>>
    /\ UNCHANGED <<inc_vars, conn_vars, ext_vars>>

\* the sync ended normally: the SDK finalizes the stream's state
Finalize ==
    /\ pc = "done"
    /\ stream_state' = FinalizeState(stream_state)
    /\ sync_end' = EndSync("ok")
    /\ pc' = "idle"
    /\ UNCHANGED <<config, wal, confirmed_flush, slot_used, sync_no,
                   start_lsn, position, cursor_open, connection_open, records,
                   read_log, delivered, sync_start, since_feedback, wait_left,
                   interrupts>>
    /\ UNCHANGED <<inc_vars, conn_vars, ext_vars>>

Program ==
    \/ StartSync
    \/ SendFeedback
    \/ StartReplication
    \/ ReadMessage
    \/ ReadNone
    \/ ConnectionDropped
    \/ Elapse
    \/ SelectTimeout
    \/ SelectReadable
    \/ SelectInterrupted
    \/ CloseCursor
    \/ CloseConnection
    \/ Finalize

Next == Commit \/ Program

Spec == Init /\ [][Next]_vars

(***************************************************************************)
(* The generator runs when it can, and a blocked select returns when its   *)
(* timeout has passed.  Nothing is assumed of the server (Commit, a        *)
(* dropped connection), of signals, or of the orchestrator starting the    *)
(* next sync.                                                              *)
(***************************************************************************)
Step ==
    \/ SendFeedback
    \/ StartReplication
    \/ ReadMessage
    \/ ReadNone
    \/ Elapse
    \/ SelectTimeout
    \/ SelectReadable
    \/ CloseCursor
    \/ CloseConnection
    \/ Finalize

\* one payload for each way the loop can go on from a message: a row is
\* yielded, nothing is yielded, consume raises
LivePayloads ==
    {Payload("I", <<Column("id", "1"), Column("data", "a")>>, <<>>),
     Payload("T", <<>>, <<>>),
     Payload("M", <<>>, <<>>)}

CommitLive == CommitOf(LivePayloads)

NextLive == CommitLive \/ Program

SpecLive == Init /\ [][NextLive]_vars /\ WF_vars(Step)

(***************************************************************************)
(* Properties.                                                             *)
(***************************************************************************)
IsRowChange(m) ==
    /\ m.payload.decodable
    /\ m.payload.action \in upsert_actions \cup delete_actions

Delivered(lsn) == \E d \in delivered : d.lsn = lsn

\* no row change lies below the resume point, or was released by the slot,
\* without having been handed downstream
NoChangeDropped ==
    \A i \in 1..Len(wal) :
        /\ IsRowChange(wal[i])
        /\ \/ wal[i].data_start <= StartingLsn(stream_state)
           \/ wal[i].data_start < confirmed_flush
        => Delivered(wal[i].data_start)

\* the feedback sent for start_lsn releases nothing at or after start_lsn
BoundaryRetained ==
    pc \in {"fed", "streaming", "waiting"} => confirmed_flush <= start_lsn

Quiet == Pending = {}

\* C2: idle termination of the read loop: every select wait is at most
\* status_interval seconds, and when from some point on no message is
\* readable, get_records leaves the while-loop for good and finishes.
C2_IdleTermination ==
    /\ [](pc = "waiting" => wait_left \in 0..status_interval)
    /\ (<>[]Quiet => <>[](~InLoop))

\* the whole timeout was spent waiting on a silent server and the loop
\* was left
C2_Witness ==
    /\ pc = "exited"
    /\ wait_left = status_interval
    /\ since_feedback > status_interval
    /\ Quiet
    /\ read_log # <<>>

\* the messages read so far by the running sync
ReadMessages == {wal[read_log[k]] : k \in 1..Len(read_log)}

ColumnNames(cols) == {cols[k].name : k \in 1..Len(cols)}

HoldsColumns(row, cols) ==
    \A k \in 1..Len(cols) :
        cols[k].name \in DOMAIN row /\ row[cols[k].name] = cols[k].value

RowsOf(m) ==
    {records[k] : k \in {j \in 1..Len(records) :
                            records[j]["_sdc_lsn"] = m.data_start}}

\* C3: upsert record shape: every message read with action I or U has
\* yielded exactly one row, which holds one entry per element of the
\* payload's columns, _sdc_deleted_at = null and _sdc_lsn = data_start.
C3_UpsertShape ==
    \A m \in ReadMessages :
        (m.payload.decodable /\ m.payload.action \in {"I", "U"})
            => /\ Cardinality(RowsOf(m)) = 1
               /\ \A row \in RowsOf(m) :
                      /\ DOMAIN row = ColumnNames(m.payload.columns)
                                          \cup {"_sdc_deleted_at", "_sdc_lsn"}
                      /\ HoldsColumns(row, m.payload.columns)
                      /\ row["_sdc_deleted_at"] = None
                      /\ row["_sdc_lsn"] = m.data_start

\* an insert and an update were read and yielded
C3_Witness ==
    /\ \E m \in ReadMessages : m.payload.action = "I"
    /\ \E m \in ReadMessages : m.payload.action = "U"
    /\ Len(records) = 2

IsDigit(c) == c \in {"0", "1", "2", "3", "4", "5", "6", "7", "8", "9"}

\* YYYY-MM-DDTHH:MM:SSZ
IsUtcTimestamp(s) ==
    /\ Len(s) = 20
    /\ \A k \in {1, 2, 3, 4, 6, 7, 9, 10, 12, 13, 15, 16, 18, 19} :
           IsDigit(s[k])
    /\ s[5] = "-" /\ s[8] = "-" /\ s[11] = "T"
    /\ s[14] = ":" /\ s[17] = ":" /\ s[20] = "Z"

IdOf(cols) == cols[CHOOSE k \in 1..Len(cols) : cols[k].name = "id"].value

\* C4: delete record shape: every message read with action D has yielded
\* one row built from the identity columns only, with _sdc_deleted_at a
\* UTC timestamp YYYY-MM-DDTHH:MM:SSZ and _sdc_lsn = data_start; an insert
\* followed by a delete of the same key has yielded a row with
\* _sdc_deleted_at null and then one with it set, with increasing _sdc_lsn.
C4_DeleteShape ==
    /\ \A m \in ReadMessages :
           (m.payload.decodable /\ m.payload.action = "D")
               => /\ Cardinality(RowsOf(m)) = 1
                  /\ \A row \in RowsOf(m) :
                         /\ DOMAIN row = ColumnNames(m.payload.identity)
                                \cup {"_sdc_deleted_at", "_sdc_lsn"}
                         /\ HoldsColumns(row, m.payload.identity)
                         /\ row["_sdc_deleted_at"] # None
                         /\ IsUtcTimestamp(row["_sdc_deleted_at"])
                         /\ row["_sdc_lsn"] = m.data_start
    /\ \A i, j \in 1..Len(read_log) :
           LET mi == wal[read_log[i]]
               mj == wal[read_log[j]]
           IN  (/\ i < j
                /\ mi.payload.decodable /\ mi.payload.action = "I"
                /\ mj.payload.decodable /\ mj.payload.action = "D"
                /\ IdOf(mi.payload.columns) = IdOf(mj.payload.identity))
               => \E a, b \in 1..Len(records) :
                      /\ a < b
                      /\ records[a]["id"] = IdOf(mi.payload.columns)
                      /\ records[b]["id"] = IdOf(mi.payload.columns)
                      /\ records[a]["_sdc_deleted_at"] = None
                      /\ records[b]["_sdc_deleted_at"] # None
                      /\ records[a]["_sdc_lsn"] < records[b]["_sdc_lsn"]

\* an insert and then a delete of the same key were read and yielded
C4_Witness ==
    /\ Len(read_log) = 2
    /\ wal[read_log[1]].payload.action = "I"
    /\ wal[read_log[2]].payload.action = "D"
    /\ Len(records) = 2
    /\ records[2]["_sdc_deleted_at"] # None

\* the step of get_records that reads the next message
ReadStep == pc = "streaming" /\ Pending # {} /\ read_log' # read_log

\* C5: truncate (T) and transaction-boundary (B, C) messages produce no
\* record and do not end the stream: the step that reads one yields
\* nothing, leaves the stream state (bookmark) as it was, and stays in the
\* loop to read the next message.
C5_MarkersSkipped ==
    [][(/\ ReadStep
        /\ wal[NextIndex].payload.decodable
        /\ wal[NextIndex].payload.action \in {"T", "B", "C"})
       => /\ records' = records
          /\ delivered' = delivered
          /\ stream_state' = stream_state
          /\ pc' = "streaming"
          /\ position' = NextIndex + 1]_vars

\* a truncate, then a transaction marker were read, and the sync goes on
C5_Witness ==
    /\ Len(read_log) = 2
    /\ wal[read_log[1]].payload.action = "T"
    /\ wal[read_log[2]].payload.action \in {"B", "C"}
    /\ records = <<>>
    /\ pc = "streaming"

IsUnknownAction(m) ==
    /\ m.payload.decodable
    /\ m.payload.action \notin {"I", "U", "D", "T", "B", "C"}

\* C6: an unrecognized action is fatal: a message with an action outside
\* {I, U, D, T, B, C} is the last one its sync reads, the sync has ended
\* with an error, and no record was yielded for the message.
C6_UnknownActionFatal ==
    \A k \in 1..Len(read_log) :
        IsUnknownAction(wal[read_log[k]])
            => /\ k = Len(read_log)
               /\ pc = "failed"
               /\ sync_end[sync_no] = "error"
               /\ RowsOf(wal[read_log[k]]) = {}
               /\ [sync |-> sync_no, lsn |-> wal[read_log[k]].data_start]
                      \notin delivered

\* a sync that had yielded a record stopped on an unknown action
C6_Witness ==
    /\ pc = "failed"
    /\ Len(read_log) = 2
    /\ IsUnknownAction(wal[read_log[2]])
    /\ Len(records) = 1

\* C7: a payload that cannot be decoded never aborts the stream: the step
\* that reads it yields nothing and stays in the loop, and every row
\* change read after it has been yielded.
C7_MalformedSkipped ==
    /\ [][(ReadStep /\ ~wal[NextIndex].payload.decodable)
            => /\ records' = records
               /\ delivered' = delivered
               /\ pc' = "streaming"
               /\ position' = NextIndex + 1]_vars
    /\ [](\A i, j \in 1..Len(read_log) :
             (/\ i < j
              /\ ~wal[read_log[i]].payload.decodable
              /\ IsRowChange(wal[read_log[j]]))
                 => Cardinality(RowsOf(wal[read_log[j]])) = 1)

\* a malformed payload was read and the insert after it was yielded
C7_Witness ==
    /\ Len(read_log) = 2
    /\ ~wal[read_log[1]].payload.decodable
    /\ wal[read_log[2]].payload.action = "I"
    /\ Len(records) = 1

\* C8: resources are released whenever a sync ends: once get_records has
\* stopped producing records, by the idle exit or by an error, the cursor
\* and the connection are closed, the cursor first.
C8_ResourcesReleased ==
    /\ (sync_no > 0 /\ pc \in {"done", "idle", "failed"})
           => (~cursor_open /\ ~connection_open)
    /\ (sync_no > 0 /\ ~connection_open) => ~cursor_open

RowLsns ==
    LET rows == SelectSeq(read_log, LAMBDA i : IsRowChange(wal[i]))
    IN  [k \in 1..Len(rows) |-> wal[rows[k]].data_start]

C10_SlotFromConfig ==
    slot_used # "" => slot_used = config.replication_slot_name

(***************************************************************************)
(* LOG_BASED, array columns.  wal2json sends the value of an array column  *)
(* as the text of a Postgres array literal, and names the column's type.   *)
(* A text is a sequence of characters; the value the query path returns    *)
(* for the same data is the list the driver's array parser makes of it.    *)
(***************************************************************************)
ArrayColumn(n, v) == [name |-> n, value |-> v, type |-> "text[]"]

\* {1,2} and {"a \"q\"",2}
ArrayTexts ==
    {<<"{", "1", ",", "2", "}">>,
     <<"{", "\"", "a", " ", "\\", "\"", "q", "\\", "\"", "\"", ",", "2",
       "}">>}

ArrayPayloads ==
    {Payload("I", <<Column("id", k), ArrayColumn("data", t)>>, <<>>) :
        k \in Keys, t \in ArrayTexts}

RECURSIVE ParseElements(_, _, _, _, _)
\* the elements of the array literal chars from position i on; cur is the
\* element being read, quoted tells whether a double quote is open
ParseElements(chars, i, cur, quoted, acc) ==
    IF i > Len(chars) THEN acc
    ELSE LET c == chars[i] IN
         IF quoted THEN
             IF c = "\\"
                 THEN ParseElements(chars, i + 2, cur \o chars[i + 1], TRUE,
                                    acc)
             ELSE IF c = "\""
                 THEN ParseElements(chars, i + 1, cur, FALSE, acc)
             ELSE ParseElements(chars, i + 1, cur \o c, TRUE, acc)
         ELSE IF c = "{" THEN ParseElements(chars, i + 1, "", FALSE, acc)
         ELSE IF c = "}" THEN Append(acc, cur)
         ELSE IF c = "," THEN
             ParseElements(chars, i + 1, "", FALSE, Append(acc, cur))
         ELSE IF c = "\"" THEN ParseElements(chars, i + 1, cur, TRUE, acc)
         ELSE ParseElements(chars, i + 1, cur \o c, FALSE, acc)

\* the list the query path returns for an array whose literal is text
ParseArrayLiteral(text) == ParseElements(text, 1, "", FALSE, <<>>)

CommitArray == CommitOf(ArrayPayloads)

NextArray == CommitArray \/ Program

SpecArray == Init /\ [][NextArray]_vars

IsArrayColumn(column) == "type" \in DOMAIN column /\ column.type = "text[]"

\* C16: CDC array decoding: an array column that arrives in a WAL payload
\* as the text of an array literal is emitted as the list the query path
\* returns for the same data, never as the raw text.
C16_ArrayDecoded ==
    \A m \in ReadMessages :
        \A row \in RowsOf(m) :
            \A k \in 1..Len(m.payload.columns) :
                LET column == m.payload.columns[k] IN
                IsArrayColumn(column)
                    => /\ row[column.name] = ParseArrayLiteral(column.value)
                       /\ row[column.name] # column.value

(***************************************************************************)
(* INCREMENTAL.  PostgresStream.get_records, client.py lines 265-307: the  *)
(* table is read with one query, ordered by the replication key with the   *)
(* nulls first and filtered by key >= start_val when start_val is truthy.  *)
(* The SDK writes the starting value before the query and advances the     *)
(* stream's bookmark after every yielded row; a stream with a replication  *)
(* key is treated as sorted, so the bookmark itself is advanced.           *)
(*                                                                         *)
(* A key or bookmark value is None, <<k>> (the plain value k) or <<k, i>>  *)
(* (the text "k||i" of a composite cursor).  A timestamp k is the k-th     *)
(* second, rendered as text in the state; an integer k is the number k.    *)
(***************************************************************************)
MaxRows == 2         \* rows inserted in one behaviour
MaxIncSyncs == 2     \* INCREMENTAL syncs run one after the other

KeyValues == {0, 1}
KeyTypes == {"timestamp", "integer"}
StartDates == {None, <<1>>}
BufferSeconds == {None, <<2>>}
CompositeCursors == {<<1, 2>>}
Clock == {2, 5}

RowKeys == {None} \cup {<<k>> : k \in KeyValues}

inc_replication_key == "updated_at"

\* Python truthiness of a bookmark or start value: None is falsy, and so is
\* the integer 0; every text is truthy (none is empty)
Truthy(v, type) == v # None /\ ~(type = "integer" /\ v = <<0>>)

\* order of two values that are not None: numbers by value, texts as
\* Python orders strings, where "k" is a proper prefix of "k||i"
ValueGe(a, b) ==
    \/ a[1] > b[1]
    \/ /\ a[1] = b[1]
       /\ \/ Len(b) = 1
          \/ Len(a) = 2 /\ a[2] >= b[2]

BookmarkOf(state) ==
    IF "replication_key_value" \in DOMAIN state
        THEN state["replication_key_value"] ELSE None

\* SDK, _write_starting_replication_value: the bookmark when truthy, and
\* for a timestamp key the later of it and start_date
StartingReplicationValue(state, cfg, type) ==
    LET value == IF Truthy(BookmarkOf(state), type)
                     THEN BookmarkOf(state) ELSE None
        start_date == cfg["start_date"]
    IN  IF ~Truthy(start_date, type) THEN value
        ELSE IF value = None THEN start_date
        ELSE IF ValueGe(value, start_date) THEN value
        ELSE start_date

\* get_starting_replication_key_value(context), line 301
StartVal(state) == state["starting_replication_value"]

\* the database cannot read a composite cursor text as a value of the
\* column's type: the query raises
QueryRaises(start_val, type) == Truthy(start_val, type) /\ Len(start_val) # 1

\* lines 302-303: if start_val: filter(replication_key_col >= start_val);
\* a comparison with a null key is not true
Filtered(rows, start_val, type) ==
    IF Truthy(start_val, type)
        THEN {r \in rows : r.key # None /\ r.key[1] >= start_val[1]}
        ELSE rows

\* line 299: order_by(nullsfirst(replication_key_col))
NullsFirst(seq) ==
    \A i, j \in 1..Len(seq) :
        i < j => \/ seq[i].key = None
                 \/ seq[j].key # None /\ seq[i].key[1] <= seq[j].key[1]

Orderings(rows) ==
    {seq \in [1..Cardinality(rows) -> rows] :
        \A i, j \in 1..Cardinality(rows) : i # j => seq[i] # seq[j]}

\* the results the database may return for the query of lines 293-303;
\* rows with equal keys come in any order
QueryResults(rows, start_val, type) ==
    {seq \in Orderings(Filtered(rows, start_val, type)) : NullsFirst(seq)}

\* SDK, increment_state with is_sorted and check_sorted: a new value below
\* the bookmark raises InvalidStreamSortException, and None cannot be
\* compared with a bookmark (TypeError)
IncrementNeverRaises(state, new_rk_value) == FALSE

IncrementRaises(state, new_rk_value) ==
    /\ BookmarkOf(state) # None
    /\ \/ new_rk_value = None
       \/ ~ValueGe(new_rk_value, BookmarkOf(state))

MaxRecordCounts == {None, <<1>>}

IncInputs ==
    /\ table = {}
    /\ key_type \in KeyTypes
    /\ has_id_column \in BOOLEAN
    /\ inc_config \in [start_date : StartDates,
                       replication_tie_breaker_column : {"id"},
                       replication_key_buffer_seconds : BufferSeconds,
                       max_record_count : MaxRecordCounts]
    /\ key_type = "integer" => inc_config["start_date"] = None
    /\ \/ inc_state = EmptyDict
       \/ /\ inc_config["start_date"] = None
          /\ \E c \in CompositeCursors :
                inc_state = [replication_key_value |-> c]
    /\ inc_pc = "idle"
    /\ result = <<>>
    /\ emitted = <<>>
    /\ inc_syncs = 0
    /\ resumed_from = None
    /\ now \in Clock

InitInc == InitLogBased /\ IncInputs /\ ConnAtRest /\ ExtAtRest

\* environment: a row is inserted; ids are given out in order
InsertRow ==
    /\ Cardinality(table) < MaxRows
    /\ \E k \in RowKeys :
          table' = table \cup {[id |-> Cardinality(table) + 1, key |-> k]}
    /\ UNCHANGED <<key_type, has_id_column, inc_config, inc_state, inc_pc,
                   result, emitted, inc_syncs, resumed_from, now>>
    /\ UNCHANGED <<log_vars, conn_vars, ext_vars>>

\* the SDK starts the sync of the stream and writes the starting value
StartIncSync ==
    /\ inc_pc \in {"idle", "failed"}
    /\ inc_syncs < MaxIncSyncs
    /\ inc_syncs' = inc_syncs + 1
    /\ resumed_from' = BookmarkOf(inc_state)
    /\ inc_state' = DictUpdate(inc_state, "starting_replication_value",
                        StartingReplicationValue(inc_state, inc_config,
                                                 key_type))
    /\ emitted' = <<>>
    /\ result' = <<>>
    /\ inc_pc' = "started"
    /\ UNCHANGED <<table, key_type, has_id_column, inc_config, now>>
    /\ UNCHANGED <<log_vars, conn_vars, ext_vars>>

\* lines 289-306: the query is built and executed
ExecuteQuery ==
    /\ inc_pc = "started"
    /\ IF QueryRaises(StartVal(inc_state), key_type)
       THEN /\ inc_pc' = "failed"
            /\ result' = <<>>
       ELSE /\ inc_pc' = "fetching"
            /\ result' \in QueryResults(table, StartVal(inc_state), key_type)
    /\ UNCHANGED <<table, key_type, has_id_column, inc_config, inc_state,
                   emitted, inc_syncs, resumed_from, now>>
    /\ UNCHANGED <<log_vars, conn_vars, ext_vars>>

\* lines 306-307: yield dict(row); the SDK then advances the bookmark
YieldRow ==
    /\ inc_pc = "fetching"
    /\ result # <<>>
    /\ LET row == Head(result) IN
        /\ emitted' = Append(emitted, row)
        /\ result' = Tail(result)
        /\ IF IncrementRaises(inc_state, row.key)
           THEN /\ inc_pc' = "failed"
                /\ inc_state' = inc_state
           ELSE /\ inc_pc' = "fetching"
                /\ inc_state' = DictUpdate(inc_state, "replication_key_value",
                                           row.key)
    /\ UNCHANGED <<table, key_type, has_id_column, inc_config, inc_syncs,
                   resumed_from, now>>
    /\ UNCHANGED <<log_vars, conn_vars, ext_vars>>

\* the connection is lost while rows are fetched
FetchFails ==
    /\ inc_pc = "fetching"
    /\ inc_pc' = "failed"
    /\ result' = <<>>
    /\ UNCHANGED <<table, key_type, has_id_column, inc_config, inc_state,
                   emitted, inc_syncs, resumed_from, now>>
    /\ UNCHANGED <<log_vars, conn_vars, ext_vars>>

\* line 306: the rows are exhausted, the sync of the stream ends
FinishIncSync ==
    /\ inc_pc = "fetching"
    /\ result = <<>>
    /\ inc_pc' = "idle"
    /\ UNCHANGED <<table, key_type, has_id_column, inc_config, inc_state,
                   result, emitted, inc_syncs, resumed_from, now>>
    /\ UNCHANGED <<log_vars, conn_vars, ext_vars>>

NextInc ==
    \/ InsertRow
    \/ StartIncSync
    \/ ExecuteQuery
    \/ YieldRow
    \/ FetchFails
    \/ FinishIncSync

SpecInc == InitInc /\ [][NextInc]_vars

(***************************************************************************)
(* Properties of the INCREMENTAL stream.                                   *)
(***************************************************************************)
IsComposite(v) == v # None /\ Len(v) = 2

\* (replication key, tie-breaker) of row r is >= the composite cursor c
TupleGe(r, c) ==
    /\ r.key # None
    /\ \/ r.key[1] > c[1]
       \/ r.key[1] = c[1] /\ r.id >= c[2]

ByKeyThenId(seq) ==
    \A i, j \in 1..Len(seq) :
        i < j => \/ seq[i].key[1] < seq[j].key[1]
                 \/ seq[i].key[1] = seq[j].key[1] /\ seq[i].id < seq[j].id

\* the step that executes the query of the sync
QueryStep == inc_pc = "started" /\ inc_pc' # "started"

\* C11: no skip under ties: the query of a sync resumed from the composite
\* cursor (key, id), on a table with the tie-breaker column, returns
\* exactly the rows whose (replication key, tie-breaker) is >= (key, id),
\* ordered by key, then tie-breaker.
C11_NoSkipUnderTies ==
    [][(QueryStep /\ has_id_column /\ IsComposite(resumed_from))
        => /\ {result'[n] : n \in 1..Len(result')}
                = {r \in table : TupleGe(r, resumed_from)}
           /\ ByKeyThenId(result')]_vars

\* cursor a is at most cursor b; no cursor (None) is below every cursor
CursorLe(a, b) == a = None \/ (b # None /\ ValueGe(b, a))

C13_BufferWatermark ==
    (/\ inc_pc = "idle"
     /\ inc_syncs > 0
     /\ inc_config["replication_key_buffer_seconds"] # None
     /\ key_type = "timestamp"
     /\ has_id_column
     /\ emitted # <<>>
     /\ emitted[Len(emitted)].key # None)
        => LET newest == emitted[Len(emitted)]
               B == inc_config["replication_key_buffer_seconds"][1]
           IN  IF newest.key[1] >= now - B
                   THEN BookmarkOf(inc_state) = <<now - B>>
                   ELSE BookmarkOf(inc_state) = <<newest.key[1], newest.id>>

\* a starting value exists: a bookmark in the state, or a start date
StartingValueExists ==
    resumed_from # None \/ inc_config["start_date"] # None

\* the starting value the claim speaks of: the bookmark, or the start date
\* when it is later or there is no bookmark
ExpectedStart ==
    LET start_date == inc_config["start_date"] IN
    IF resumed_from = None THEN start_date
    ELSE IF start_date = None THEN resumed_from
    ELSE IF ValueGe(resumed_from, start_date) THEN resumed_from
    ELSE start_date

\* C14: null keys in the incremental query: when a starting value (start
\* date or bookmark) exists the query filters replication_key >= start and
\* returns no row whose key is null; when none exists it returns every
\* row, the rows with a null key first.  (Composite bookmarks, which fail
\* as in C11, are left aside.)
C14_NullKeyHandling ==
    [][(QueryStep /\ ~IsComposite(resumed_from))
        => /\ inc_pc' = "fetching"
           /\ IF StartingValueExists
              THEN \A n \in 1..Len(result') :
                      /\ result'[n].key # None
                      /\ result'[n].key[1] >= ExpectedStart[1]
              ELSE /\ {result'[n] : n \in 1..Len(result')} = table
                   /\ NullsFirst(result')]_vars

\* C15: a missing tie-breaker column is fatal before any data: on a table
\* without the tie-breaker column (id) a sync fails before a row is
\* fetched or yielded and before a cursor is persisted.
C15_MissingTieBreakerFatal ==
    ~has_id_column
        => /\ inc_pc \in {"idle", "started", "failed"}
           /\ inc_pc = "idle" => inc_syncs = 0
           /\ result = <<>>
           /\ emitted = <<>>
           /\ inc_syncs > 0 => BookmarkOf(inc_state) = resumed_from

(***************************************************************************)
(* Construction of the tap and ConnectionParameters.                       *)
(*                                                                         *)
(* A config is a dict after the defaults of config_jsonschema are applied  *)
(* (port, ssl_enable, ssl_mode, ssl_client_certificate_enable and          *)
(* default_replication_method are always present).  config.get(k) is not   *)
(* None exactly when k is a key of the dict.  A sqlalchemy_url is held in  *)
(* the form make_url parses it to: the parts it carries are the fields of  *)
(* the record, query is the dict of its query string.  The options dict of *)
(* a ConnectionParameters is an object: heap holds the dicts, an instance  *)
(* holds the index of its dict.                                            *)
(***************************************************************************)
MaxInstances == 2

APPLICATION_NAME == "tap_postgres"

Merge(a, b) ==
    [k \in (DOMAIN a) \cup (DOMAIN b) |-> IF k \in DOMAIN b THEN b[k] ELSE a[k]]

Defaults ==
    [port |-> 5432, ssl_enable |-> FALSE, ssl_mode |-> "verify-full",
     ssl_client_certificate_enable |-> FALSE,
     default_replication_method |-> "FULL_TABLE"]

Components ==
    [host |-> "localhost", port |-> 5432, user |-> "postgres",
     password |-> "postgres", database |-> "postgres"]

ComponentChoices ==
    {EmptyDict, Components, DictPop(Components, "host"),
     DictPop(Components, "database")}

UrlPlain ==
    [host |-> "127.0.0.1", port |-> 5432, database |-> "postgres",
     username |-> "postgres", password |-> "mypass", query |-> EmptyDict]

UrlNamed ==
    [host |-> "db.example.com", port |-> 5439, database |-> "mydb",
     username |-> "user", password |-> "pass",
     query |-> [application_name |-> "another-name", sslmode |-> "require"]]

UrlNoPort ==
    [host |-> "db.example.com", database |-> "mydb",
     username |-> "user", password |-> "pass", query |-> EmptyDict]

UrlNoHost ==
    [database |-> "mydb", username |-> "user", password |-> "pass",
     query |-> EmptyDict]

Urls == {UrlPlain, UrlNamed, UrlNoPort, UrlNoHost}

UrlChoices == {EmptyDict} \cup {[sqlalchemy_url |-> u] : u \in Urls}

ModeChoices == {EmptyDict, [replication_mode |-> "LOG_BASED"]}

MethodChoices == {EmptyDict, [default_replication_method |-> "LOG_BASED"]}

SslChoices == {EmptyDict, [ssl_enable |-> TRUE, ssl_mode |-> "require"]}

TapConfigs ==
    {Merge(Merge(Merge(Merge(Merge(Defaults, c), u), m), d), t) :
        c \in ComponentChoices, u \in UrlChoices, m \in ModeChoices,
        d \in MethodChoices, t \in SslChoices}

CatalogEntries == [replication_method : {"FULL_TABLE", "LOG_BASED"}]

\* config.get(k) is not None
IsSet(cfg, k) == k \in DOMAIN cfg

ConnInputs ==
    /\ tap_config \in TapConfigs
    /\ tap_status = "new"
    /\ lr_connection = "none"
    /\ heap = <<>>
    /\ instances = <<>>
    /\ catalog_entry \in CatalogEntries
    /\ stream_class = "none"
    /\ raised = "none"
    /\ call = [op |-> "none"]
    /\ derived_from = <<>>

InitConn == InitLogBased /\ IncAtRest /\ ConnInputs /\ ExtAtRest

\* the four assertions of TapPostgres.__init__
AssertionsHold(cfg) ==
    /\ \/ IsSet(cfg, "sqlalchemy_url")
       \/ /\ IsSet(cfg, "host")
          /\ IsSet(cfg, "port")
          /\ IsSet(cfg, "user")
          /\ IsSet(cfg, "password")
    /\ \/ ~IsSet(cfg, "sqlalchemy_url")
       \/ ~(IsSet(cfg, "replication_mode")
               /\ cfg["replication_mode"] = "LOG_BASED")
    /\ \/ IsSet(cfg, "sqlalchemy_url")
       \/ cfg["ssl_enable"] = FALSE
       \/ cfg["ssl_mode"] \in {"disable", "allow", "prefer", "require"}
       \/ /\ cfg["ssl_mode"] \in {"verify-ca", "verify-full"}
          /\ IsSet(cfg, "ssl_certificate_authority")
    /\ \/ IsSet(cfg, "sqlalchemy_url")
       \/ cfg["ssl_client_certificate_enable"] = FALSE
       \/ /\ IsSet(cfg, "ssl_client_certificate")
          /\ IsSet(cfg, "ssl_client_private_key")

\* TapPostgres(config=...): an AssertionError rejects the config
Construct ==
    /\ tap_status = "new"
    /\ tap_status' = IF AssertionsHold(tap_config) THEN "constructed"
                     ELSE "rejected"
    /\ UNCHANGED <<tap_config, lr_connection, heap, instances, catalog_entry,
                   stream_class, raised, call, derived_from>>
    /\ UNCHANGED <<log_vars, inc_vars, ext_vars>>

\* get_sqlalchemy_url: the url of the config, or one built from its parts
SqlalchemyUrlRaises(cfg) ==
    /\ ~IsSet(cfg, "sqlalchemy_url")
    /\ \E k \in {"user", "password", "host", "port", "database"} :
           ~IsSet(cfg, k)

\* discover_streams: the stream's class follows the catalog entry; the
\* connector is built first, from get_sqlalchemy_url
DiscoverStreams ==
    /\ tap_status = "constructed"
    /\ stream_class = "none"
    /\ stream_class' =
          IF SqlalchemyUrlRaises(tap_config) THEN "KeyError"
          ELSE IF catalog_entry["replication_method"] = "LOG_BASED"
               THEN "PostgresLogBasedStream"
               ELSE "PostgresStream"
    /\ UNCHANGED <<tap_config, tap_status, lr_connection, heap, instances,
                   catalog_entry, raised, call, derived_from>>
    /\ UNCHANGED <<log_vars, inc_vars, ext_vars>>

ConnectionStringKeys == {"database", "user", "password", "host", "port"}

\* logical_replication_connection: self.config[k] for each part of the
\* connection string
LogicalReplicationConnection ==
    /\ stream_class = "PostgresLogBasedStream"
    /\ lr_connection = "none"
    /\ lr_connection' =
          IF \A k \in ConnectionStringKeys : k \in DOMAIN tap_config
          THEN "open" ELSE "KeyError"
    /\ UNCHANGED <<tap_config, tap_status, heap, instances, catalog_entry,
                   stream_class, raised, call, derived_from>>
    /\ UNCHANGED <<log_vars, inc_vars, ext_vars>>

_build_options_from_tap_config(cfg) ==
    LET options == [application_name |-> APPLICATION_NAME] IN
    IF cfg["ssl_enable"]
    THEN DictUpdate(options, "sslmode", cfg["ssl_mode"])
    ELSE options

_build_options_from_sqlalchemy_url(url) ==
    Merge([application_name |-> APPLICATION_NAME], url.query)

UrlIncomplete(url) ==
    \E f \in {"host", "database", "username", "password"} : f \notin DOMAIN url

FromTapConfigRaises(cfg) ==
    IF IsSet(cfg, "sqlalchemy_url")
    THEN IF UrlIncomplete(cfg["sqlalchemy_url"]) THEN "ValueError" ELSE "none"
    ELSE IF \E k \in {"host", "port", "database", "user", "password"} :
                ~IsSet(cfg, k)
         THEN "KeyError" ELSE "none"

\* the fields of the instance from_tap_config builds, its options aside
FromTapConfigFields(cfg) ==
    IF IsSet(cfg, "sqlalchemy_url")
    THEN LET url == cfg["sqlalchemy_url"] IN
         [host |-> url.host,
          port |-> IF "port" \in DOMAIN url THEN url.port ELSE 5432,
          database |-> url.database,
          user |-> url.username,
          password |-> url.password]
    ELSE [host |-> cfg["host"], port |-> cfg["port"],
          database |-> cfg["database"], user |-> cfg["user"],
          password |-> cfg["password"]]

FromTapConfigOptions(cfg) ==
    IF IsSet(cfg, "sqlalchemy_url")
    THEN _build_options_from_sqlalchemy_url(cfg["sqlalchemy_url"])
    ELSE _build_options_from_tap_config(cfg)

\* ConnectionParameters.from_tap_config(config)
FromTapConfig ==
    /\ Len(instances) < MaxInstances
    /\ call' = [op |-> "from_tap_config"]
    /\ raised' = FromTapConfigRaises(tap_config)
    /\ IF raised' = "none"
       THEN /\ heap' = Append(heap, FromTapConfigOptions(tap_config))
            /\ instances' =
                  Append(instances,
                         Merge(FromTapConfigFields(tap_config),
                               [options |-> Len(heap) + 1]))
            /\ derived_from' = Append(derived_from, 0)
       ELSE UNCHANGED <<heap, instances, derived_from>>
    /\ UNCHANGED <<tap_config, tap_status, lr_connection, catalog_entry,
                   stream_class>>
    /\ UNCHANGED <<log_vars, inc_vars, ext_vars>>

TunnelHosts == {"127.0.0.1"}
TunnelPorts == {6543}

\* self.with_host_and_port(host, port), for the instance numbered i
WithHostAndPort ==
    /\ Len(instances) < MaxInstances
    /\ \E i \in 1..Len(instances), host \in TunnelHosts, port \in TunnelPorts :
          /\ instances' =
                Append(instances,
                       [host |-> host,
                        port |-> port,
                        database |-> instances[i].database,
                        user |-> instances[i].user,
                        password |-> instances[i].password,
                        options |-> instances[i].options])
          /\ derived_from' = Append(derived_from, i)
          /\ call' = [op |-> "with_host_and_port", self |-> i,
                      host |-> host, port |-> port]
    /\ UNCHANGED <<tap_config, tap_status, lr_connection, heap, catalog_entry,
                   stream_class, raised>>
    /\ UNCHANGED <<log_vars, inc_vars, ext_vars>>

OptionKeys == {"sslmode"}
OptionValues == {"disable"}

\* a holder of the instance numbered j stores into its options dict:
\* parameters.options[key] = value
ModifyOptions ==
    /\ \E j \in 1..Len(instances), key \in OptionKeys, value \in OptionValues :
          /\ heap' = [heap EXCEPT ![instances[j].options] =
                                       DictUpdate(@, key, value)]
          /\ call' = [op |-> "modify", target |-> j]
    /\ UNCHANGED <<tap_config, tap_status, lr_connection, instances,
                   catalog_entry, stream_class, raised, derived_from>>
    /\ UNCHANGED <<log_vars, inc_vars, ext_vars>>

NextConn ==
    \/ Construct
    \/ DiscoverStreams
    \/ LogicalReplicationConnection
    \/ FromTapConfig
    \/ WithHostAndPort
    \/ ModifyOptions

SpecConn == InitConn /\ [][NextConn]_vars

(***************************************************************************)
(* Properties of the construction of the tap and ConnectionParameters.     *)
(***************************************************************************)
HasUrl == IsSet(tap_config, "sqlalchemy_url")

HasComponents ==
    \A k \in {"host", "port", "user", "password"} : IsSet(tap_config, k)

NotConstructed ==
    /\ tap_status \in {"new", "rejected"}
    /\ stream_class = "none"
    /\ lr_connection = "none"

\* C17: a contradictory connection configuration is rejected: a tap given
\* both a sqlalchemy_url and host, port, user and password is never
\* constructed, so it creates no stream and opens no connection.
C17_ContradictoryRejected ==
    (HasUrl /\ HasComponents) => NotConstructed

LogBasedChosen ==
    \/ tap_config["default_replication_method"] = "LOG_BASED"
    \/ catalog_entry["replication_method"] = "LOG_BASED"
    \/ /\ IsSet(tap_config, "replication_mode")
       /\ tap_config["replication_mode"] = "LOG_BASED"

\* C18: a sqlalchemy_url cannot be combined with log-based replication: a
\* tap given a sqlalchemy_url and LOG_BASED as the replication method is
\* never constructed, and logical_replication_connection never meets a
\* config that lacks host, port, user, password or database.
C18_UrlExcludesLogBased ==
    /\ (HasUrl /\ LogBasedChosen) => NotConstructed
    /\ lr_connection # "KeyError"

Built == call'.op = "from_tap_config" /\ Len(instances') = Len(instances) + 1

\* C19: application_name is fixed: the options of every ConnectionParameters
\* that from_tap_config builds, from discrete fields or from a
\* sqlalchemy_url (whatever its query string), have application_name =
\* "tap_postgres".
C19_ApplicationNameFixed ==
    [][Built => heap'[instances'[Len(instances')].options]["application_name"]
                    = APPLICATION_NAME]_vars

Derived == call'.op = "with_host_and_port" /\ Len(instances') = Len(instances) + 1

DerivedIsCopy ==
    LET new == instances'[Len(instances')]
        old == instances[call'.self]
    IN  /\ new.host = call'.host
        /\ new.port = call'.port
        /\ new.database = old.database
        /\ new.user = old.user
        /\ new.password = old.password
        /\ heap'[new.options] = heap[old.options]
        /\ instances'[call'.self] = old
        /\ heap'[old.options] = heap[old.options]

ModifiedDerived ==
    /\ call'.op = "modify"
    /\ derived_from[call'.target] # 0

OriginalKept ==
    LET original == instances[derived_from[call'.target]]
    IN  /\ instances'[derived_from[call'.target]] = original
        /\ heap'[original.options] = heap[original.options]

DerivedStepPure == [][Derived => DerivedIsCopy]_vars

OriginalNeverMutated == [][ModifiedDerived => OriginalKept]_vars

\* C20: with_host_and_port is pure: the instance it returns has the given
\* host and port and the original's database, user, password and options,
\* and the original (its options included) is unchanged by the call and by
\* a later modification of the returned instance's options.
C20_WithHostAndPortPure == DerivedStepPure /\ OriginalNeverMutated

(***************************************************************************)
(* Certificate files: _build_options_from_tap_config with ssl_enable,      *)
(* ssl_mode = verify-full and ssl_client_certificate_enable set, which     *)
(* calls _filepath_or_certificate for the certificate authority, the       *)
(* client certificate and the client's private key.  The filesystem is     *)
(* shared with other processes, so each system call is a step: isfile,     *)
(* open (which creates the file with mode 0666 & ~umask, or truncates it   *)
(* and keeps its mode), write and close, chmod.  Modes are the numbers of  *)
(* their octal notation: 0600 = 384, 0644 = 420, 0666 = 438.               *)
(***************************************************************************)
fs_frame == <<log_vars, inc_vars, conn_vars, type_vars, schema_vars, ssh_vars>>

OwnerOnly == 384

RECURSIVE BitAnd(_, _)
BitAnd(a, b) ==
    IF a = 0 \/ b = 0 THEN 0
    ELSE (a % 2) * (b % 2) + 2 * BitAnd(a \div 2, b \div 2)

CreateMode(mask) == BitAnd(438, 511 - mask)

Umasks == {18, 63}

Calls ==
    << [option |-> "sslrootcert", key |-> "ssl_certificate_authority",
        alternative_path |-> ".secrets/root.crt",
        restrict_permissions |-> FALSE],
       [option |-> "sslcert", key |-> "ssl_client_certificate",
        alternative_path |-> ".secrets/cert.crt",
        restrict_permissions |-> FALSE],
       [option |-> "sslkey", key |-> "ssl_client_private_key",
        alternative_path |-> ".secrets/pkey.key",
        restrict_permissions |-> TRUE] >>

ExistingFiles ==
    [p \in {"/certs/ca.crt", "/certs/client.crt", "/certs/client.key"} |->
        [data |-> "PEM", mode |-> IF p = "/certs/client.key" THEN 384 ELSE 420]]

AlternativePaths == {Calls[c].alternative_path : c \in 1..Len(Calls)}

SslConfigs ==
    [ssl_certificate_authority : {"/certs/ca.crt", "---ROOTCERT---"},
     ssl_client_certificate : {"/certs/client.crt", "---CERT---"},
     ssl_client_private_key : {"/certs/client.key", "---PKEY---"}]

\* files left under the storage directory by something else
Leftovers ==
    {[p \in ps |-> [data |-> "old", mode |-> 420]] : ps \in SUBSET AlternativePaths}

FsInputs ==
    /\ fs_config \in SslConfigs
    /\ umask \in Umasks
    /\ files \in {Merge(ExistingFiles, left) : left \in Leftovers}
    /\ fs_pc = [call |-> 1, step |-> "isfile"]
    /\ fs_options = [application_name |-> APPLICATION_NAME,
                     sslmode |-> "verify-full"]

InitFs ==
    /\ InitLogBased /\ IncAtRest /\ ConnAtRest
    /\ FsInputs /\ TypesAtRest /\ SchemaAtRest /\ SshAtRest

CurrentCall == Calls[fs_pc.call]

CurrentValue == fs_config[CurrentCall.key]

\* the call returns a path: the option is set and the next call begins
Returns(returned) ==
    /\ fs_options' = DictUpdate(fs_options, CurrentCall.option, returned)
    /\ fs_pc' = IF fs_pc.call = Len(Calls)
                THEN [call |-> fs_pc.call, step |-> "done"]
                ELSE [call |-> fs_pc.call + 1, step |-> "isfile"]

\* if path.isfile(value): return value
PathIsFile ==
    /\ fs_pc.step = "isfile"
    /\ CurrentValue \in DOMAIN files
    /\ Returns(CurrentValue)
    /\ UNCHANGED <<fs_config, umask, files>>
    /\ UNCHANGED fs_frame

\* not a file: the parent directory is made and open(alternative_path, "wb")
\* creates or truncates the file
OpenAlternative ==
    /\ fs_pc.step = "isfile"
    /\ CurrentValue \notin DOMAIN files
    /\ LET path == CurrentCall.alternative_path IN
       files' = DictUpdate(files, path,
                   [data |-> "",
                    mode |-> IF path \in DOMAIN files THEN files[path].mode
                             ELSE CreateMode(umask)])
    /\ fs_pc' = [fs_pc EXCEPT !.step = "write"]
    /\ UNCHANGED <<fs_config, umask, fs_options>>
    /\ UNCHANGED fs_frame

\* alternative_file.write(value.encode("utf-8")) and the end of the with block
WriteValue ==
    /\ fs_pc.step = "write"
    /\ files' = [files EXCEPT ![CurrentCall.alternative_path].data = CurrentValue]
    /\ IF CurrentCall.restrict_permissions
       THEN /\ fs_pc' = [fs_pc EXCEPT !.step = "chmod"]
            /\ UNCHANGED fs_options
       ELSE Returns(CurrentCall.alternative_path)
    /\ UNCHANGED <<fs_config, umask>>
    /\ UNCHANGED fs_frame

\* chmod(alternative_path, 0o600), then return str(alternative_path)
Chmod ==
    /\ fs_pc.step = "chmod"
    /\ files' = [files EXCEPT ![CurrentCall.alternative_path].mode = OwnerOnly]
    /\ Returns(CurrentCall.alternative_path)
    /\ UNCHANGED <<fs_config, umask>>
    /\ UNCHANGED fs_frame

NextFs == PathIsFile \/ OpenAlternative \/ WriteValue \/ Chmod

SpecFs == InitFs /\ [][NextFs]_vars

IsPath(value) == value \in DOMAIN ExistingFiles

PathUsedAsIs ==
    [][(fs_pc.step = "isfile" /\ IsPath(CurrentValue))
         => /\ files' = files
            /\ fs_options'[CurrentCall.option] = CurrentValue]_vars

InlineWritten ==
    \A c \in 1..Len(Calls) :
        (/\ fs_pc.call > c \/ fs_pc.step = "done"
         /\ ~IsPath(fs_config[Calls[c].key]))
            => /\ files[Calls[c].alternative_path].data = fs_config[Calls[c].key]
               /\ fs_options[Calls[c].option] = Calls[c].alternative_path

KeyFileModeAtReturn ==
    (fs_pc.step = "done" /\ ~IsPath(fs_config["ssl_client_private_key"]))
        => files[".secrets/pkey.key"].mode = OwnerOnly

KeyNeverExposed ==
    \A p \in DOMAIN files :
        files[p].data = "---PKEY---" => files[p].mode = OwnerOnly

\* C21: certificate materialization: a value that is an existing file path
\* is used as it is and nothing is written; any other value is written
\* verbatim to root.crt / cert.crt / pkey.key under the storage directory
\* and that path is used; a private key written this way has mode 0600 and
\* is at no time on disk with wider permissions.
C21_CertificateFiles ==
    /\ PathUsedAsIs
    /\ [](InlineWritten /\ KeyFileModeAtReturn /\ KeyNeverExposed)

(***************************************************************************)
(* Temporal values.  Texts are sequences of characters.  psycopg2 keeps    *)
(* one registry of type casters for the process: register_type replaces    *)
(* the caster of each OID it names.  A value is a record: kind "none"      *)
(* (None), "str" (a text), "date" or "datetime".                           *)
(***************************************************************************)
MaxConnectors == 2

type_frame == <<log_vars, inc_vars, conn_vars, fs_vars, schema_vars, ssh_vars>>

Digits == <<"0", "1", "2", "3", "4", "5", "6", "7", "8", "9">>

DigitVal(c) == (CHOOSE i \in 1..10 : Digits[i] = c) - 1

AllDigits(chars) == \A k \in 1..Len(chars) : IsDigit(chars[k])

RECURSIVE ParseInt(_)
ParseInt(chars) ==
    IF chars = <<>> THEN 0
    ELSE 10 * ParseInt(SubSeq(chars, 1, Len(chars) - 1))
            + DigitVal(chars[Len(chars)])

\* the fields of a text between the occurrences of sep
RECURSIVE Split(_, _)
Split(chars, sep) ==
    IF \A k \in 1..Len(chars) : chars[k] # sep THEN <<chars>>
    ELSE LET k == CHOOSE i \in 1..Len(chars) :
                     chars[i] = sep /\ \A j \in 1..(i - 1) : chars[j] # sep
         IN  <<SubSeq(chars, 1, k - 1)>>
                 \o Split(SubSeq(chars, k + 1, Len(chars)), sep)

IsLeap(y) == (y % 4 = 0 /\ y % 100 # 0) \/ y % 400 = 0

DaysIn(m, y) ==
    IF m = 2 THEN (IF IsLeap(y) THEN 29 ELSE 28)
    ELSE IF m \in {4, 6, 9, 11} THEN 30 ELSE 31

\* datetime.date(y, m, d) exists
IsDate(y, m, d) ==
    /\ y \in 1..9999
    /\ m \in 1..12
    /\ d \in 1..DaysIn(m, y)

NoneValue == [kind |-> "none"]

Returned(v) == [value |-> v]

Raised(exc) == [raises |-> exc]

\* datetime.datetime.strptime(str_value, "%Y-%m-%d").date(): %Y is four
\* digits, %m and %d one or two, nothing may follow
Strptime(chars) ==
    LET f == Split(chars, "-") IN
    IF /\ Len(f) = 3
       /\ Len(f[1]) = 4 /\ AllDigits(f[1])
       /\ Len(f[2]) \in 1..2 /\ AllDigits(f[2])
       /\ Len(f[3]) \in 1..2 /\ AllDigits(f[3])
       /\ IsDate(ParseInt(f[1]), ParseInt(f[2]), ParseInt(f[3]))
    THEN Returned([kind |-> "date", year |-> ParseInt(f[1]),
                   month |-> ParseInt(f[2]), day |-> ParseInt(f[3])])
    ELSE Raised("ValueError")

\* datetime.datetime.fromisoformat(str_value), for the texts Postgres sends
\* for a timestamp: YYYY-MM-DD, T or a space, HH:MM:SS
Fromisoformat(chars) ==
    LET d == Split(SubSeq(chars, 1, 10), "-")
        t == Split(SubSeq(chars, 12, Len(chars)), ":")
    IN
    IF /\ Len(chars) = 19
       /\ chars[11] \in {"T", " "}
       /\ Len(d) = 3 /\ Len(d[1]) = 4 /\ Len(d[2]) = 2 /\ Len(d[3]) = 2
       /\ \A k \in 1..3 : AllDigits(d[k])
       /\ Len(t) = 3
       /\ \A k \in 1..3 : Len(t[k]) = 2 /\ AllDigits(t[k])
       /\ IsDate(ParseInt(d[1]), ParseInt(d[2]), ParseInt(d[3]))
       /\ ParseInt(t[1]) \in 0..23
       /\ ParseInt(t[2]) \in 0..59
       /\ ParseInt(t[3]) \in 0..59
    THEN Returned([kind |-> "datetime", year |-> ParseInt(d[1]),
                   month |-> ParseInt(d[2]), day |-> ParseInt(d[3]),
                   hour |-> ParseInt(t[1]), minute |-> ParseInt(t[2]),
                   second |-> ParseInt(t[3])])
    ELSE Raised("ValueError")

Infinity == <<"i", "n", "f", "i", "n", "i", "t", "y">>
MinusInfinity == <<"-", "i", "n", "f", "i", "n", "i", "t", "y">>

\* except (ValueError, OverflowError)
CaughtNothing(exc) == FALSE
Caught(exc) == exc \in {"ValueError", "OverflowError"}

\* the body both safe parsers share; parser is strptime or fromisoformat
SafeParse(value, parser) ==
    IF value.kind = "none" THEN Returned(NoneValue)
    ELSE IF value.kind = "bytes" /\ ~value.utf8 THEN Returned(NoneValue)
    ELSE IF value.chars \in {Infinity, MinusInfinity} THEN Returned(NoneValue)
    ELSE LET r == IF parser = "strptime" THEN Strptime(value.chars)
                  ELSE Fromisoformat(value.chars) IN
         IF "raises" \in DOMAIN r /\ Caught(r.raises)
         THEN Returned(NoneValue)
         ELSE r

safe_parse_date(value) == SafeParse(value, "strptime")

safe_parse_datetime(value) == SafeParse(value, "fromisoformat")

DateTexts ==
    {<<"2", "0", "2", "3", "-", "1", "0", "-", "2", "6">>,
     <<"2", "0", "2", "4", "-", "0", "2", "-", "2", "9">>,
     <<"2", "0", "2", "3", "-", "0", "2", "-", "3", "0">>,
     <<"0", "0", "0", "1", "-", "0", "1", "-", "0", "1">>,
     <<"9", "9", "9", "9", "-", "1", "2", "-", "3", "1">>,
     <<"0", "0", "0", "0", "-", "0", "1", "-", "0", "1">>,
     <<"1", "0", "0", "0", "0", "-", "0", "1", "-", "0", "1">>,
     <<"4", "7", "1", "3", "-", "0", "4", "-", "0", "3", " ", "B", "C">>,
     <<"2", "0", "2", "3", "-", "0", "4", "4", "-", "0", "1">>,
     <<"n", "o", "t", "-", "a", "-", "d", "a", "t", "e">>}

DatetimeTexts ==
    {<<"2", "0", "2", "3", "-", "1", "0", "-", "2", "6", " ", "1", "0", ":", "3", "0", ":", "0", "0">>,
     <<"2", "0", "2", "3", "-", "1", "0", "-", "2", "6", "T", "1", "0", ":", "3", "0", ":", "0", "0">>,
     <<"2", "0", "2", "3", "-", "1", "0", "-", "2", "6", " ", "2", "4", ":", "0", "0", ":", "0", "0">>,
     <<"0", "0", "0", "0", "-", "0", "1", "-", "0", "1", "T", "0", "0", ":", "0", "0", ":", "0", "0">>,
     <<"1", "0", "0", "0", "0", "-", "0", "1", "-", "0", "1", "T", "0", "0", ":", "0", "0", ":", "0", "0">>,
     <<"4", "7", "1", "2", "-", "1", "0", "-", "1", "9", " ", "1", "0", ":", "2", "3", ":", "5", "4", " ", "B", "C">>,
     <<"n", "o", "t", "-", "a", "-", "d", "a", "t", "e", "t", "i", "m", "e">>}

Texts == DateTexts \cup DatetimeTexts \cup {Infinity, MinusInfinity}

\* what a caller may pass to a safe parser
ParserInputs ==
    {NoneValue}
        \cup {[kind |-> "str", chars |-> t] : t \in Texts}
        \cup {[kind |-> "bytes", chars |-> t, utf8 |-> u] :
                 t \in {<<"2", "0", "2", "3", "-", "1", "1", "-", "1", "5">>, <<"2", "0", "2", "3", "-", "3", "0", "-", "3", "0">>}, u \in BOOLEAN}

\* what the server sends for a column of the type with this OID
CellsOf(oid) ==
    {NoneValue}
        \cup {[kind |-> "str", chars |-> t] :
                 t \in (IF oid = DATE_OID THEN DateTexts ELSE DatetimeTexts)
                          \cup {Infinity, MinusInfinity}}

\* the caster psycopg2 applies to a cell
Cast(caster, cell) ==
    IF caster = "CUSTOM_DATE" THEN safe_parse_date(cell)
    ELSE IF caster \in {"CUSTOM_TIMESTAMP", "CUSTOM_TIMESTAMPTZ"}
         THEN safe_parse_datetime(cell)
    ELSE IF caster = "STRING_DATES" THEN Returned(cell)
    ELSE IF cell.kind = "none" THEN Returned(NoneValue)
    ELSE IF caster = "DATE" THEN Strptime(cell.chars)
    ELSE Fromisoformat(cell.chars)

(***************************************************************************)
(* The JSON schema of a column (sdk_typing_object) and the value emitted   *)
(* for it (patched_conform).                                               *)
(***************************************************************************)
StringType == [type |-> <<"string">>]
DateTimeType == [type |-> <<"string">>, format |-> "date-time"]
DateType == [type |-> <<"string">>, format |-> "date"]
IntegerType == [type |-> <<"integer">>]
NumberType == [type |-> <<"number">>]
BooleanType == [type |-> <<"boolean">>]
CustomJson ==
    [type |-> <<"string", "number", "integer", "array", "object", "boolean">>]

\* the ordered mapping: earlier keys take precedence
sqltype_lookup ==
    << <<<<"j", "s", "o", "n", "b">>, CustomJson>>,
       <<<<"j", "s", "o", "n">>, CustomJson>>,
       <<<<"t", "i", "m", "e", "s", "t", "a", "m", "p">>, DateTimeType>>,
       <<<<"d", "a", "t", "e", "t", "i", "m", "e">>, DateTimeType>>,
       <<<<"d", "a", "t", "e">>, DateType>>,
       <<<<"i", "n", "t">>, IntegerType>>,
       <<<<"n", "u", "m", "e", "r", "i", "c">>, NumberType>>,
       <<<<"d", "e", "c", "i", "m", "a", "l">>, NumberType>>,
       <<<<"d", "o", "u", "b", "l", "e">>, NumberType>>,
       <<<<"f", "l", "o", "a", "t">>, NumberType>>,
       <<<<"s", "t", "r", "i", "n", "g">>, StringType>>,
       <<<<"t", "e", "x", "t">>, StringType>>,
       <<<<"c", "h", "a", "r">>, StringType>>,
       <<<<"b", "o", "o", "l">>, BooleanType>>,
       <<<<"v", "a", "r", "i", "a", "n", "t">>, StringType>> >>

\* sqltype_lookup[key] = value: the key keeps its place
LookupSet(lookup, key, value) ==
    [k \in 1..Len(lookup) |->
        IF lookup[k][1] = key THEN <<key, value>> ELSE lookup[k]]

UpperCase == <<"A", "D", "E", "G", "I", "M", "N", "P", "R", "S", "T", "X">>
LowerCase == <<"a", "d", "e", "g", "i", "m", "n", "p", "r", "s", "t", "x">>

\* str.lower(), for the letters of the type names below
Lower(chars) ==
    [k \in 1..Len(chars) |->
        IF \E i \in 1..Len(UpperCase) : UpperCase[i] = chars[k]
        THEN LowerCase[CHOOSE i \in 1..Len(UpperCase) : UpperCase[i] = chars[k]]
        ELSE chars[k]]

\* sub in chars
Contains(sub, chars) ==
    \E i \in 0..(Len(chars) - Len(sub)) :
        SubSeq(chars, i + 1, i + Len(sub)) = sub

sdk_typing_object(cfg, type_name) ==
    LET lookup ==
            IF cfg["dates_as_string"] = TRUE
            THEN LookupSet(LookupSet(sqltype_lookup, <<"d", "a", "t", "e">>, StringType),
                           <<"d", "a", "t", "e", "t", "i", "m", "e">>, StringType)
            ELSE sqltype_lookup
        hits == {k \in 1..Len(lookup) :
                    Contains(Lower(lookup[k][1]), Lower(type_name))}
    IN  IF hits = {} THEN StringType
        ELSE lookup[CHOOSE k \in hits : \A j \in hits : k <= j][2]

\* type(sql_type).__name__ of the column SQLAlchemy reflects for the OID
TypeNameOf(oid) ==
    IF oid = DATE_OID THEN <<"D", "A", "T", "E">> ELSE <<"T", "I", "M", "E", "S", "T", "A", "M", "P">>

RECURSIVE Pad(_, _)
Pad(n, width) ==
    IF width = 0 THEN <<>>
    ELSE Pad(n \div 10, width - 1) \o <<Digits[(n % 10) + 1]>>

\* datetime.date.isoformat and datetime.datetime.isoformat
Isoformat(v) ==
    Pad(v.year, 4) \o <<"-">> \o Pad(v.month, 2) \o <<"-">> \o Pad(v.day, 2)
        \o (IF v.kind = "datetime"
            THEN <<"T">> \o Pad(v.hour, 2) \o <<":">> \o Pad(v.minute, 2)
                     \o <<":">> \o Pad(v.second, 2)
            ELSE <<>>)

\* a datetime is a datetime.date too, so both take the first branch; a
\* text and None are returned as they are
patched_conform(elem) ==
    IF elem.kind \in {"date", "datetime"}
    THEN [kind |-> "str", chars |-> Isoformat(elem)]
    ELSE elem

\* what a stream emits for a cell: the caster's value, conformed
Emitted(outcome) ==
    IF "value" \in DOMAIN outcome THEN Returned(patched_conform(outcome.value))
    ELSE outcome

\* the schema each connector config gives the column of each OID
ColumnSchemas ==
    {[config |-> cfg, oid |-> oid,
      schema |-> sdk_typing_object(cfg, TypeNameOf(oid))] :
        cfg \in [dates_as_string : BOOLEAN], oid \in TemporalOids}

ColumnSchema(cfg, oid) ==
    (CHOOSE t \in ColumnSchemas : t.config = cfg /\ t.oid = oid).schema

RegisteredCasters ==
    {"CUSTOM_DATE", "CUSTOM_TIMESTAMP", "CUSTOM_TIMESTAMPTZ", "STRING_DATES"}

\* what each registered caster returns for each cell of each OID
CastOf ==
    [caster \in RegisteredCasters, oid \in TemporalOids |->
        [cell \in CellsOf(oid) |-> Cast(caster, cell)]]

\* import tap_postgres: adapter.register_parsers()
ImportPackage ==
    /\ ~imported
    /\ imported' = TRUE
    /\ typecasters' =
          [oid \in TemporalOids |->
              IF oid = DATE_OID THEN "CUSTOM_DATE"
              ELSE IF oid = TIMESTAMP_OID THEN "CUSTOM_TIMESTAMP"
              ELSE "CUSTOM_TIMESTAMPTZ"]
    /\ UNCHANGED <<connectors, fetched>>
    /\ UNCHANGED type_frame

ConnectorConfigs == [dates_as_string : BOOLEAN]

\* PostgresConnector(config): with dates_as_string the STRING caster is
\* registered for the three OIDs
ConstructConnector ==
    /\ imported
    /\ Len(connectors) < MaxConnectors
    /\ \E cfg \in ConnectorConfigs :
          /\ connectors' = Append(connectors, cfg)
          /\ typecasters' =
                IF cfg["dates_as_string"] = TRUE
                THEN [oid \in TemporalOids |-> "STRING_DATES"]
                ELSE typecasters
    /\ UNCHANGED <<imported, fetched>>
    /\ UNCHANGED type_frame

\* adapter.safe_parse_date(value, cur) or adapter.safe_parse_datetime(value, cur)
CallParser ==
    /\ imported
    /\ \E value \in ParserInputs, op \in {"safe_parse_date", "safe_parse_datetime"} :
          fetched' = [by |-> op, cell |-> value,
                      outcome |-> IF op = "safe_parse_date"
                                  THEN safe_parse_date(value)
                                  ELSE safe_parse_datetime(value)]
    /\ UNCHANGED <<typecasters, imported, connectors>>
    /\ UNCHANGED type_frame

\* a stream of the connector numbered c, for a temporal column: the
\* schema the connector gives the column, the value its cursor returns for
\* a cell and the value the record carries
FetchCell ==
    /\ \E c \in 1..Len(connectors), oid \in TemporalOids :
          \E cell \in CellsOf(oid) :
              LET outcome == CastOf[typecasters[oid], oid][cell] IN
              fetched' = [by |-> "cursor", connector |-> c, oid |-> oid,
                          cell |-> cell,
                          schema |-> ColumnSchema(connectors[c], oid),
                          outcome |-> outcome,
                          record |-> Emitted(outcome)]
    /\ UNCHANGED <<typecasters, imported, connectors>>
    /\ UNCHANGED type_frame

NextTypes == ImportPackage \/ ConstructConnector \/ CallParser \/ FetchCell

SpecTypes == Init /\ [][NextTypes]_vars

(***************************************************************************)
(* Properties of the temporal values.                                      *)
(***************************************************************************)
SafeParsers == {"safe_parse_date", "safe_parse_datetime"}

ValidTemporal(v) ==
    \/ v.kind = "none"
    \/ /\ v.kind = "date"
       /\ IsDate(v.year, v.month, v.day)
    \/ /\ v.kind = "datetime"
       /\ IsDate(v.year, v.month, v.day)
       /\ v.hour \in 0..23 /\ v.minute \in 0..59 /\ v.second \in 0..59

C23_DatesAsString ==
    (fetched.by = "cursor" /\ connectors[fetched.connector]["dates_as_string"])
        => /\ fetched.schema = StringType
           /\ fetched.record = Returned(fetched.cell)

\* C28: the temporal parsing mode is not shared between connectors: what a
\* connector with dates_as_string = false fetches from a temporal column is
\* the value of the safe parsers (a date, a datetime or None), whatever
\* other connectors were constructed in the process.
C28_ParsingModeNotShared ==
    (fetched.by = "cursor" /\ ~connectors[fetched.connector]["dates_as_string"])
        => /\ "value" \in DOMAIN fetched.outcome
           /\ fetched.outcome.value.kind \in {"none", "date", "datetime"}
           /\ fetched.outcome =
                 IF fetched.oid = DATE_OID THEN safe_parse_date(fetched.cell)
                 ELSE safe_parse_datetime(fetched.cell)

\* C24: max_record_count caps a stream: with max_record_count = N in the
\* config a sync emits at most N records.
C24_MaxRecordCount ==
    inc_config["max_record_count"] # None
        => Len(emitted) <= inc_config["max_record_count"][1]

(***************************************************************************)
(* The start of a LOG_BASED sync, lines 377-404.                           *)
(***************************************************************************)
\* the bookmark the state store holds for the stream, 0 when it holds none
PersistedLsn ==
    IF "replication_key_value" \in DOMAIN stream_state
        THEN stream_state["replication_key_value"] ELSE 0

StartsFromBookmark ==
    [][pc' = "connected" => start_lsn' = PersistedLsn]_vars

FeedbackThenReplication ==
    [][/\ (pc = "connected" /\ pc' # "connected")
            => (pc' = "fed" /\ confirmed_flush' = Max(confirmed_flush, start_lsn))
       /\ (pc' = "streaming" /\ ~InLoop) => pc = "fed"
       /\ pc' = "fed" => pc \in {"connected", "fed"}]_vars

SameStartLsn ==
    [][pc' # "connected" => start_lsn' = start_lsn]_vars

NothingReadBeforeReplication ==
    [](pc \in {"connected", "fed"} => (read_log = <<>> /\ records = <<>>))

ReadOnlyInSession ==
    [][read_log' # read_log =>
          (pc = "streaming" /\ read_log' # <<>>) \/ pc' = "connected"]_vars

\* C25: CDC start-up ordering: a sync starts at the persisted bookmark, or
\* at 0 when there is none; the flush feedback for that LSN is sent before
\* start_replication, which is called with the same LSN, and no message is
\* read before start_replication has been issued.
C25_StartupOrdering ==
    /\ StartsFromBookmark
    /\ FeedbackThenReplication
    /\ SameStartLsn
    /\ NothingReadBeforeReplication
    /\ ReadOnlyInSession

\* a second sync was started from a bookmark, sent its feedback, started
\* replication and read a message
C25_Witness ==
    /\ sync_no = 2
    /\ pc = "streaming"
    /\ start_lsn > 0
    /\ confirmed_flush = start_lsn
    /\ read_log # <<>>

(***************************************************************************)
(* The idle wait, lines 409-428.                                           *)
(***************************************************************************)
\* the step on which select raises InterruptedError
Interrupted == pc = "waiting" /\ interrupts' = interrupts + 1

InterruptKeepsLoop ==
    [][Interrupted =>
          /\ pc' = "streaming"
          /\ cursor_open' /\ connection_open'
          /\ sync_end' = sync_end
          /\ UNCHANGED <<records, read_log, position, stream_state>>]_vars

ReadsBeforeLeaving ==
    [][pc = "streaming" => pc' \in {"streaming", "waiting", "failed"}]_vars

WaitsAfresh ==
    [][(pc = "streaming" /\ pc' = "waiting")
          => wait_left' = Max(0, status_interval - since_feedback')]_vars

\* C26: an interrupted idle wait is retried: when select raises
\* InterruptedError the loop neither breaks nor closes the cursor; it reads
\* again and, if there is still no message, waits again with a timeout
\* computed anew.
C26_InterruptRetried ==
    /\ InterruptKeepsLoop
    /\ ReadsBeforeLeaving
    /\ WaitsAfresh

\* a wait was interrupted, the next read found nothing, and the loop waits
\* again on the open cursor
C26_Witness ==
    /\ interrupts = 1
    /\ pc = "waiting"
    /\ cursor_open
    /\ wait_left = status_interval - since_feedback
    /\ wait_left > 0

\* the seconds since the cursor's last feedback when the timeout is computed
FeedbackAge == since_feedback'

TimeoutIsBudgetLeft ==
    [][(pc = "streaming" /\ pc' = "waiting") =>
          wait_left' = IF FeedbackAge > status_interval THEN 0
                       ELSE status_interval - FeedbackAge]_vars

TimeoutInRange ==
    [](pc = "waiting" => (wait_left >= 0 /\ wait_left <= status_interval))

StaleFeedbackEndsSync ==
    [][(/\ pc = "waiting"
        /\ wait_left = 0
        /\ Pending = {}
        /\ pc' # "waiting"
        /\ ~Interrupted) => pc' = "exited"]_vars

\* C27: idle-wait budget bounds: every timeout handed to select equals
\* max(0, status_interval - seconds since the cursor's last feedback), so it
\* lies in [0, status_interval]; when the last feedback is older than
\* status_interval the wait is zero and the sync ends at once if nothing is
\* readable.
C27_WaitBudget ==
    /\ TimeoutIsBudgetLeft
    /\ TimeoutInRange
    /\ StaleFeedbackEndsSync

\* select was handed a zero timeout because the last feedback was older
\* than status_interval, nothing was readable and the loop was left
C27_Witness ==
    /\ pc = "exited"
    /\ wait_left = 0
    /\ since_feedback > status_interval
    /\ Pending = {}
    /\ read_log # <<>>

(***************************************************************************)
(* The schema of a LOG_BASED stream.  A JSON schema "type" is either one   *)
(* name or a list of names: [list, names].  The stream is built from the   *)
(* entry of catalog_dict (tap.py, discover_streams); TapPostgres.catalog   *)
(* returns its own modified copy of the entry.                             *)
(***************************************************************************)
schema_frame == <<log_vars, inc_vars, conn_vars, fs_vars, type_vars, ssh_vars>>

TypeName(name) == [list |-> FALSE, names |-> <<name>>]
TypeList(names) == [list |-> TRUE, names |-> names]

Elements(seq) == {seq[k] : k \in 1..Len(seq)}

Occurrences(seq, x) == Cardinality({k \in 1..Len(seq) : seq[k] = x})

\* the entries of the table of test_null_append (id BIGINT primary key,
\* data TEXT): as discovery writes them, with a type given as one name, and
\* as a catalog file written from TapPostgres.catalog holds them
IdTypes == {TypeList(<<"integer">>), TypeName("integer"),
            TypeList(<<"integer", "null">>)}
DataTypes == {TypeList(<<"string", "null">>), TypeName("string"),
              TypeList(<<"string">>)}
SdcProperties ==
    {EmptyDict,
     [_sdc_deleted_at |-> [type |-> TypeList(<<"string", "null">>)],
      _sdc_lsn |-> [type |-> TypeList(<<"integer", "null">>)]]}

Merged(d, e) ==
    [k \in DOMAIN d \cup DOMAIN e |-> IF k \in DOMAIN e THEN e[k] ELSE d[k]]

LogBasedEntries ==
    {Merged([replication_method |-> "LOG_BASED",
             properties |-> Merged([id |-> [type |-> t], data |-> [type |-> u]],
                                   sdc)], req) :
        t \in IdTypes, u \in DataTypes, sdc \in SdcProperties,
        req \in {EmptyDict, [required |-> <<"id">>]}}

SchemaInputs ==
    /\ singer_catalog_entry \in LogBasedEntries
    /\ working_catalog = NotYet
    /\ stream_schema = NotYet
    /\ written = NotYet

InitSchema ==
    /\ InitLogBased /\ IncAtRest /\ ConnAtRest
    /\ FsAtRest /\ TypesAtRest /\ SchemaInputs /\ SshAtRest

\* client.py lines 329-333
AppendNull(type) ==
    IF type.list THEN TypeList(Append(type.names, "null"))
    ELSE TypeList(<<type.names[1], "null">>)

\* client.py lines 325-338: PostgresLogBasedStream.schema
schema(entry) ==
    LET nullable == [k \in DOMAIN entry.properties |->
                        [type |-> AppendNull(entry.properties[k].type)]]
        dropped == DictPop(entry, "required")
        deleted_at == DictUpdate(nullable, "_sdc_deleted_at",
                                 [type |-> TypeList(<<"string">>)])
        lsn == DictUpdate(deleted_at, "_sdc_lsn",
                          [type |-> TypeList(<<"integer">>)])
    IN  DictUpdate(dropped, "properties", lsn)

\* tap.py line 755: "null" not in property.type (none of the type names
\* used here has another one as a substring)
HasNull(type) == "null" \in Elements(type.names)

\* tap.py lines 740-797: TapPostgres.catalog, for one LOG_BASED stream
catalog(entry) ==
    LET nullable == [k \in DOMAIN entry.properties |->
                        [type |-> IF HasNull(entry.properties[k].type)
                                     THEN entry.properties[k].type
                                     ELSE AppendNull(entry.properties[k].type)]]
        deleted_at ==
            IF "_sdc_deleted_at" \in DOMAIN nullable THEN nullable
            ELSE DictUpdate(nullable, "_sdc_deleted_at",
                            [type |-> TypeList(<<"string", "null">>)])
        lsn ==
            IF "_sdc_lsn" \in DOMAIN deleted_at THEN deleted_at
            ELSE DictUpdate(deleted_at, "_sdc_lsn",
                            [type |-> TypeList(<<"integer", "null">>)])
    IN  DictUpdate(DictPop(entry, "required"), "properties", lsn)

\* wal2json column values, with their JSON type
JsonInteger(n) == [json |-> "integer", v |-> n]
JsonString(chars) == [json |-> "string", v |-> chars]
JsonNull == [json |-> "null"]

SchemaMessages ==
    {Message(1, Payload(a, <<Column("id", JsonInteger(1)), Column("data", d)>>,
                        <<>>)) :
        a \in {"I", "U"}, d \in {JsonString(<<"a">>), JsonNull}}
    \cup {Message(2, Payload("D", <<>>, <<Column("id", JsonInteger(1))>>))}

\* TapPostgres.catalog is read (tap.py lines 740-797)
ReadCatalog ==
    /\ singer_catalog_entry # EmptyDict
    /\ working_catalog = NotYet
    /\ working_catalog' = [done |-> TRUE, value |-> catalog(singer_catalog_entry)]
    /\ UNCHANGED <<singer_catalog_entry, stream_schema, written>>
    /\ UNCHANGED schema_frame

\* the first read of the cached property schema (client.py lines 325-338)
ReadSchema ==
    /\ singer_catalog_entry # EmptyDict
    /\ stream_schema = NotYet
    /\ stream_schema' = [done |-> TRUE, value |-> schema(singer_catalog_entry)]
    /\ UNCHANGED <<singer_catalog_entry, working_catalog, written>>
    /\ UNCHANGED schema_frame

\* a message is read and its row emitted (client.py lines 404-408), after
\* the stream's schema message
WriteRecord ==
    /\ stream_schema # NotYet
    /\ \E message \in SchemaMessages, utcnow \in ClockReadings :
           written' = [done |-> TRUE, record |-> Consume(message, utcnow)]
    /\ UNCHANGED <<singer_catalog_entry, working_catalog, stream_schema>>
    /\ UNCHANGED schema_frame

NextSchema == ReadCatalog \/ ReadSchema \/ WriteRecord

SpecSchema == InitSchema /\ [][NextSchema]_vars

TableColumns == {"id", "data"}

\* the JSON type of the value a record holds for a property
JsonTypeOf(record, k) ==
    IF k = "_sdc_lsn" THEN "integer"
    ELSE IF k = "_sdc_deleted_at"
        THEN (IF record[k] = None THEN "null" ELSE "string")
    ELSE record[k].json

\* JSON schema validation of one value against a "type"
Allows(type, json) ==
    \/ json \in Elements(type.names)
    \/ json = "integer" /\ "number" \in Elements(type.names)

Conforms(record, sch) ==
    /\ \A k \in DOMAIN record :
           /\ k \in DOMAIN sch.properties
           /\ Allows(sch.properties[k].type, JsonTypeOf(record, k))
    /\ "required" \in DOMAIN sch
           => Elements(sch.required) \subseteq DOMAIN record

ColumnsNullableOnce(sch) ==
    \A k \in TableColumns :
        /\ sch.properties[k].type.list
        /\ Occurrences(sch.properties[k].type.names, "null") = 1

SdcColumnsDeclared(sch) ==
    /\ Allows(sch.properties["_sdc_lsn"].type, "integer")
    /\ Allows(sch.properties["_sdc_deleted_at"].type, "null")
    /\ Allows(sch.properties["_sdc_deleted_at"].type, "string")

RecordsConform ==
    (stream_schema.done /\ written.done /\ written.record # EmptyDict)
        => Conforms(written.record, stream_schema.value)

SchemaWellFormed ==
    stream_schema.done
        => /\ ColumnsNullableOnce(stream_schema.value)
           /\ "required" \notin DOMAIN stream_schema.value
           /\ SdcColumnsDeclared(stream_schema.value)

\* C29: every record a LOG_BASED stream emits conforms to the stream's
\* schema: the schema lists every table column as nullable with "null"
\* once, has no "required", declares _sdc_lsn as integer and allows both
\* null and a string for _sdc_deleted_at.
C29_RecordsConformToSchema == RecordsConform /\ SchemaWellFormed

\* what the claim says of the stream's schema holds of the entry
\* TapPostgres.catalog returns
CatalogWellFormed ==
    working_catalog.done
        => /\ ColumnsNullableOnce(working_catalog.value)
           /\ "required" \notin DOMAIN working_catalog.value
           /\ SdcColumnsDeclared(working_catalog.value)

DeletesConform ==
    (stream_schema.done /\ written.done /\ written.record # EmptyDict
        /\ written.record["_sdc_deleted_at"] # None
        /\ ~HasNull(singer_catalog_entry.properties["id"].type))
        => Conforms(written.record, stream_schema.value)

(***************************************************************************)
(* SSHTunnelForwarder (tap.py lines 83-203): start() and stop() run in the *)
(* caller's thread, _forward_tunnel in its own; a step is one statement.   *)
(***************************************************************************)
MaxClients == 2      \* connections made to the local port in one behaviour

ssh_frame == <<log_vars, inc_vars, conn_vars, fs_vars, type_vars, schema_vars>>

\* lines 83-109: start()
Start ==
    /\ caller = "new"
    /\ ssh_client' = "connected"
    /\ server_socket' = "listening"
    /\ tunnel_thread' = "guard"
    /\ caller' = "started"
    /\ UNCHANGED <<stop_event, backlog, clients, local_socket, forwarded>>
    /\ UNCHANGED ssh_frame

\* a client connects to the local port
ClientConnects ==
    /\ server_socket = "listening"
    /\ clients < MaxClients
    /\ clients' = clients + 1
    /\ backlog' = backlog + 1
    /\ UNCHANGED <<stop_event, server_socket, ssh_client, tunnel_thread,
                   caller, local_socket, forwarded>>
    /\ UNCHANGED ssh_frame

\* lines 113-114
Guard ==
    /\ tunnel_thread = "guard"
    /\ tunnel_thread' =
           IF server_socket = "none" \/ ssh_client = "none"
               THEN "returned" ELSE "test"
    /\ UNCHANGED <<stop_event, server_socket, ssh_client, caller, backlog,
                   clients, local_socket, forwarded>>
    /\ UNCHANGED ssh_frame

\* line 116: while not self._stop_event.is_set()
TestStopEvent ==
    /\ tunnel_thread = "test"
    /\ tunnel_thread' = IF stop_event THEN "returned" ELSE "settimeout"
    /\ UNCHANGED <<stop_event, server_socket, ssh_client, caller, backlog,
                   clients, local_socket, forwarded>>
    /\ UNCHANGED ssh_frame

\* line 119: settimeout raises OSError on a closed socket
SetTimeout ==
    /\ tunnel_thread = "settimeout"
    /\ tunnel_thread' = IF server_socket = "closed" THEN "handler" ELSE "accept"
    /\ UNCHANGED <<stop_event, server_socket, ssh_client, caller, backlog,
                   clients, local_socket, forwarded>>
    /\ UNCHANGED ssh_frame

\* lines 121-123: accept returns a waiting connection, or raises
\* TimeoutError after a second without one (continue), or raises OSError:
\* the socket was closed, or the waiting connection was aborted
Accept ==
    /\ tunnel_thread = "accept"
    /\ \/ /\ server_socket = "listening"
          /\ backlog > 0
          /\ backlog' = backlog - 1
          /\ local_socket' = [open |-> TRUE, after_stop |-> stop_event]
          /\ tunnel_thread' = "transport"
       \/ /\ server_socket = "closed" \/ backlog = 0
          /\ tunnel_thread' = "test"
          /\ UNCHANGED <<backlog, local_socket>>
       \/ /\ server_socket = "closed"
          /\ tunnel_thread' = "handler"
          /\ UNCHANGED <<backlog, local_socket>>
       \/ /\ server_socket = "listening"
          /\ backlog > 0
          /\ backlog' = backlog - 1
          /\ tunnel_thread' = "handler"
          /\ UNCHANGED local_socket
    /\ UNCHANGED <<stop_event, server_socket, ssh_client, caller, clients,
                   forwarded>>
    /\ UNCHANGED ssh_frame

\* lines 126-129: a closed SSHClient has no transport
GetTransport ==
    /\ tunnel_thread = "transport"
    /\ IF ssh_client = "closed"
       THEN /\ local_socket' = NoSocket
            /\ tunnel_thread' = "test"
       ELSE /\ tunnel_thread' = "open_channel"
            /\ UNCHANGED local_socket
    /\ UNCHANGED <<stop_event, server_socket, ssh_client, caller, backlog,
                   clients, forwarded>>
    /\ UNCHANGED ssh_frame

\* lines 131-135: open_channel returns a channel, or raises SSHException
\* (the session is closed, the server refuses the channel), which no
\* except clause of _forward_tunnel catches
OpenChannel ==
    /\ tunnel_thread = "open_channel"
    /\ \/ /\ ssh_client = "connected"
          /\ tunnel_thread' = "spawn"
       \/ tunnel_thread' = "crashed"
    /\ UNCHANGED <<stop_event, server_socket, ssh_client, caller, backlog,
                   clients, local_socket, forwarded>>
    /\ UNCHANGED ssh_frame

\* lines 138-142: the connection is handed to a _forward_data thread
StartForwarding ==
    /\ tunnel_thread = "spawn"
    /\ forwarded' = Append(forwarded, local_socket)
    /\ local_socket' = NoSocket
    /\ tunnel_thread' = "test"
    /\ UNCHANGED <<stop_event, server_socket, ssh_client, caller, backlog,
                   clients>>
    /\ UNCHANGED ssh_frame

\* lines 143-145: except OSError
HandleOSError ==
    /\ tunnel_thread = "handler"
    /\ tunnel_thread' = IF ~stop_event THEN "returned" ELSE "test"
    /\ UNCHANGED <<stop_event, server_socket, ssh_client, caller, backlog,
                   clients, local_socket, forwarded>>
    /\ UNCHANGED ssh_frame

\* line 193
SetStopEvent ==
    /\ caller = "started"
    /\ stop_event' = TRUE
    /\ caller' = "closing_socket"
    /\ UNCHANGED <<server_socket, ssh_client, tunnel_thread, backlog, clients,
                   local_socket, forwarded>>
    /\ UNCHANGED ssh_frame

\* lines 195-197: connections not yet accepted are reset
CloseServerSocket ==
    /\ caller = "closing_socket"
    /\ server_socket' = "closed"
    /\ backlog' = 0
    /\ caller' = "joining"
    /\ UNCHANGED <<stop_event, ssh_client, tunnel_thread, clients,
                   local_socket, forwarded>>
    /\ UNCHANGED ssh_frame

ThreadAlive == tunnel_thread \notin {"unstarted", "returned", "crashed"}

\* lines 199-200: join returns when the thread has ended, or after 2 seconds
Join ==
    /\ caller = "joining"
    /\ caller' = "closing_client"
    /\ UNCHANGED <<stop_event, server_socket, ssh_client, tunnel_thread,
                   backlog, clients, local_socket, forwarded>>
    /\ UNCHANGED ssh_frame

\* lines 202-203
CloseSshClient ==
    /\ caller = "closing_client"
    /\ ssh_client' = "closed"
    /\ caller' = "stopped"
    /\ UNCHANGED <<stop_event, server_socket, tunnel_thread, backlog, clients,
                   local_socket, forwarded>>
    /\ UNCHANGED ssh_frame

ForwardTunnel ==
    \/ Guard
    \/ TestStopEvent
    \/ SetTimeout
    \/ Accept
    \/ GetTransport
    \/ OpenChannel
    \/ StartForwarding
    \/ HandleOSError

Stop == SetStopEvent \/ CloseServerSocket \/ Join \/ CloseSshClient

NextSsh == Start \/ ClientConnects \/ ForwardTunnel \/ Stop

\* the forwarding thread is scheduled and its blocking calls return
SpecSsh == Init /\ [][NextSsh]_vars /\ WF_vars(ForwardTunnel)

\* the accept loop is left once stop() has set the event
LoopExits == stop_event ~> ~ThreadAlive

\* no connection accepted after the stop event was set is forwarded
NoForwardAfterStop ==
    \A k \in 1..Len(forwarded) : ~forwarded[k].after_stop

\* stop() leaves the SSH client closed
SshClientClosed == caller = "stopped" => ssh_client = "closed"

\* until stop() is called the thread stays in its accept loop
KeepsAccepting == caller = "started" => ThreadAlive

\* C30: SSH tunnel shutdown: whatever the forwarding thread is doing when
\* stop() runs, the accept loop of _forward_tunnel exits after stop(), no
\* connection is accepted and forwarded once the stop event is set, and the
\* SSH client is closed; before stop() is called the loop keeps accepting
\* connections.
C30_TunnelShutdown ==
    /\ LoopExits
    /\ [](NoForwardAfterStop /\ SshClientClosed /\ KeepsAccepting)

\* the parts of the claim about the end of stop()
ShutdownCompletes == LoopExits /\ []SshClientClosed
====
